---- MODULE Spec2Model ----
(***************************************************************************)
(* The query translator of mongo-ts (src/utils/parser.ts), its classifier, *)
(* and the executor and client manager that consume its result            *)
(* (src/lib/executor.ts, src/lib/client.ts).                               *)
(*                                                                         *)
(* Text is a sequence of one-character strings; position i of a sequence   *)
(* is JavaScript index i-1.  A JavaScript exception is a result record     *)
(* with ok = FALSE (or raised = TRUE); try/catch is the test of that flag. *)
(***************************************************************************)
EXTENDS Integers, Sequences, FiniteSets, TLC

VARIABLES pc, input, mark, args, base, parsed, stages, verdict,
          readonly, mgr, calls, result

vars == <<pc, input, mark, args, base, parsed, stages, verdict,
          readonly, mgr, calls, result>>

----------------------------------------------------------------------------
(* Characters *)

\* /\s/ of the scanner and of String.prototype.trim
JsWhitespace == {" ", "\t", "\n", "\r", "\f"}

\* whitespace of the JSON grammar (no form feed)
JsonWhitespace == {" ", "\t", "\n", "\r"}

\* characters JSON.parse refuses unescaped inside a string
ControlChars == {"\t", "\n", "\r", "\f"}

Digits == {"0", "1", "2", "3", "4", "5", "6", "7", "8", "9"}

LowerLetters ==
    {"a", "b", "c", "d", "e", "f", "g", "h", "i", "j", "k", "l", "m",
     "n", "o", "p", "q", "r", "s", "t", "u", "v", "w", "x", "y", "z"}

UpperLetters ==
    {"A", "B", "C", "D", "E", "F", "G", "H", "I", "J", "K", "L", "M",
     "N", "O", "P", "Q", "R", "S", "T", "U", "V", "W", "X", "Y", "Z"}

\* /\w/
WordChars == LowerLetters \cup UpperLetters \cup Digits \cup {"_"}

HexChars == Digits \cup {"a", "b", "c", "d", "e", "f", "A", "B", "C", "D", "E", "F"}

QuoteChars == {"\"", "'"}

\* String.prototype.toLowerCase on one character
toLowerChar(c) ==
    CASE c = "A" -> "a" [] c = "B" -> "b" [] c = "C" -> "c" [] c = "D" -> "d"
      [] c = "E" -> "e" [] c = "F" -> "f" [] c = "G" -> "g" [] c = "H" -> "h"
      [] c = "I" -> "i" [] c = "J" -> "j" [] c = "K" -> "k" [] c = "L" -> "l"
      [] c = "M" -> "m" [] c = "N" -> "n" [] c = "O" -> "o" [] c = "P" -> "p"
      [] c = "Q" -> "q" [] c = "R" -> "r" [] c = "S" -> "s" [] c = "T" -> "t"
      [] c = "U" -> "u" [] c = "V" -> "v" [] c = "W" -> "w" [] c = "X" -> "x"
      [] c = "Y" -> "y" [] c = "Z" -> "z" [] OTHER -> c

toLowerCase(str) == [i \in 1..Len(str) |-> toLowerChar(str[i])]

\* str.slice(from-1, to) of JavaScript: the characters at positions from..to
slice(str, from, to) ==
    IF from > to \/ from > Len(str) THEN <<>>
    ELSE SubSeq(str, from, IF to > Len(str) THEN Len(str) ELSE to)

\* str.startsWith(prefix) at position pos
startsWithAt(str, pos, prefix) ==
    /\ pos + Len(prefix) - 1 <= Len(str)
    /\ \A k \in 1..Len(prefix) : str[pos + k - 1] = prefix[k]

\* first position >= i holding a character outside set, Len(str)+1 if none
RECURSIVE skipWhile(_, _, _)
skipWhile(str, i, set) ==
    IF i <= Len(str) /\ str[i] \in set THEN skipWhile(str, i + 1, set) ELSE i

\* first position >= i holding a character of set, Len(str)+1 if none
RECURSIVE skipUntil(_, _, _)
skipUntil(str, i, set) ==
    IF i <= Len(str) /\ str[i] \notin set THEN skipUntil(str, i + 1, set) ELSE i

\* String.prototype.trim
trim(str) ==
    LET first == skipWhile(str, 1, JsWhitespace)
        lasts == {j \in 1..Len(str) : str[j] \notin JsWhitespace}
    IN  IF lasts = {} THEN <<>>
        ELSE slice(str, first, CHOOSE j \in lasts : \A k \in lasts : k <= j)

RECURSIVE concatAll(_)
concatAll(seqs) ==
    IF seqs = <<>> THEN <<>> ELSE Head(seqs) \o concatAll(Tail(seqs))

----------------------------------------------------------------------------
(* Lexical normalizer: convertToJson and its helpers *)

\* findClosingQuote: position of the closing quote; the last position of the
\* text when there is none.  A backslash skips the character after it.
RECURSIVE findClosingQuoteFrom(_, _, _)
findClosingQuoteFrom(str, i, quote) ==
    IF i > Len(str) THEN Len(str)
    ELSE IF str[i] = "\\" THEN findClosingQuoteFrom(str, i + 2, quote)
    ELSE IF str[i] = quote THEN i
    ELSE findClosingQuoteFrom(str, i + 1, quote)

\* Mutation of findClosingQuote: a missing closing quote is reported the way
\* indexOf reports it, as the position before the text
findClosingQuoteIndexOf(str, start, quote) ==
    IF findClosingQuoteFrom(str, start + 1, quote) > start
       /\ str[findClosingQuoteFrom(str, start + 1, quote)] = quote
    THEN findClosingQuoteFrom(str, start + 1, quote)
    ELSE 0

findClosingQuote(str, start, quote) == findClosingQuoteFrom(str, start + 1, quote)

\* content.replace: every double quote gets a backslash before it
RECURSIVE escapeDoubleQuotes(_)
escapeDoubleQuotes(content) ==
    IF content = <<>> THEN <<>>
    ELSE (IF Head(content) = "\"" THEN <<"\\", "\"">> ELSE <<Head(content)>>)
         \o escapeDoubleQuotes(Tail(content))

\* Mutation of skipWhitespaceAndMatchKey: a bareword may not start with $
skipWhitespaceAndMatchKeyNoDollar(str, pos) ==
    LET i        == skipWhile(str, pos, JsWhitespace)
        ws       == slice(str, pos, i - 1)
        wordEnd  == skipWhile(str, i, WordChars)
        colon    == skipWhile(str, wordEnd, JsWhitespace)
        keyMatch == /\ wordEnd > i
                    /\ colon <= Len(str)
                    /\ str[colon] = ":"
    IN  IF keyMatch
        THEN [text |-> ws \o <<"\"">> \o slice(str, i, wordEnd - 1) \o <<"\"", ":">>,
              pos  |-> colon + 1]
        ELSE [text |-> ws, pos |-> i]

\* skipWhitespaceAndMatchKey: the whitespace at pos is copied; a bareword
\* /^(\$?\w+)\s*:/ after it is emitted as a quoted key.
skipWhitespaceAndMatchKey(str, pos) ==
    LET i        == skipWhile(str, pos, JsWhitespace)
        ws       == slice(str, pos, i - 1)
        wordFrom == IF i <= Len(str) /\ str[i] = "$" THEN i + 1 ELSE i
        wordEnd  == skipWhile(str, wordFrom, WordChars)
        colon    == skipWhile(str, wordEnd, JsWhitespace)
        keyMatch == /\ wordEnd > wordFrom
                    /\ colon <= Len(str)
                    /\ str[colon] = ":"
    IN  IF keyMatch
        THEN [text |-> ws \o <<"\"">> \o slice(str, i, wordEnd - 1) \o <<"\"", ":">>,
              pos  |-> colon + 1]
        ELSE [text |-> ws, pos |-> i]

\* The capture of a BSON pattern is substituted with String.prototype.replace,
\* which expands dollar patterns in the substituted text: $$ is a dollar sign,
\* $& is the matched text $1, and $ with a single quote is the template after
\* the match.  (The fourth pattern, $ with a backtick, is outside the
\* characters of this model.)
RECURSIVE expandReplacement(_, _)
expandReplacement(capture, after) ==
    IF capture = <<>> THEN <<>>
    ELSE IF Head(capture) = "$" /\ Len(capture) >= 2 /\ capture[2] \in {"$", "&", "'"}
    THEN (CASE capture[2] = "$" -> <<"$">>
            [] capture[2] = "&" -> <<"$", "1">>
            [] OTHER -> after)
         \o expandReplacement(slice(capture, 3, Len(capture)), after)
    ELSE <<Head(capture)>> \o expandReplacement(Tail(capture), after)

\* replace.replace(/\$1/g, match[1]) for a template before$1after
substitute(before, capture, after) ==
    before \o expandReplacement(capture, after) \o after

NoMatch == [matched |-> FALSE, replacement |-> <<>>, consumed |-> 0]

\* position after the optional (?:new\s+)? prefix
afterNew(str, pos) ==
    IF startsWithAt(str, pos, <<"n","e","w">>) /\ pos + 3 <= Len(str) /\ str[pos + 3] \in JsWhitespace
    THEN skipWhile(str, pos + 3, JsWhitespace)
    ELSE pos

\* /^(?:new\s+)?Name\(Q([^Q]+)Q\)/, Q being either quote character, with
\* its replacement template
matchQuotedCall(str, pos, name, before, after) ==
    LET p     == afterNew(str, pos)
        open  == p + Len(name) + 1
        close == skipUntil(str, open + 1, QuoteChars)
    IN  IF /\ startsWithAt(str, p, name \o <<"(">>)
           /\ open <= Len(str) /\ str[open] \in QuoteChars
           /\ close > open + 1
           /\ close + 1 <= Len(str)
           /\ str[close] \in QuoteChars /\ str[close + 1] = ")"
        THEN [matched     |-> TRUE,
              replacement |-> substitute(before, slice(str, open + 1, close - 1), after),
              consumed    |-> close + 2 - pos]
        ELSE NoMatch

\* /^(?:new\s+)?Name\(Q(-?\d+)Q\)/ where Q is one quote character of either
\* kind when quotes is required, an optional one when quotes is optional, and
\* nothing when quotes is none
matchNumberCall(str, pos, name, quotes, before, after) ==
    LET p      == afterNew(str, pos)
        open   == p + Len(name) + 1
        hasQ1  == quotes # "none" /\ open <= Len(str) /\ str[open] \in QuoteChars
        sign   == IF hasQ1 THEN open + 1 ELSE open
        first  == IF sign <= Len(str) /\ str[sign] = "-" THEN sign + 1 ELSE sign
        last   == skipWhile(str, first, Digits)
        hasQ2  == quotes # "none" /\ last <= Len(str) /\ str[last] \in QuoteChars
        paren  == IF hasQ2 THEN last + 1 ELSE last
    IN  IF /\ startsWithAt(str, p, name \o <<"(">>)
           /\ (quotes = "required" => hasQ1 /\ hasQ2)
           /\ last > first
           /\ paren <= Len(str) /\ str[paren] = ")"
        THEN [matched     |-> TRUE,
              replacement |-> substitute(before, slice(str, sign, last - 1), after),
              consumed    |-> paren + 1 - pos]
        ELSE NoMatch

\* BSON_PATTERNS, in order
BSON_PATTERNS(str, pos) ==
    << matchQuotedCall(str, pos, <<"O","b","j","e","c","t","I","d">>, <<"{","\"","$","o","i","d","\"",":","\"">>, <<"\"","}">>),
       matchQuotedCall(str, pos, <<"I","S","O","D","a","t","e">>, <<"{","\"","$","d","a","t","e","\"",":","\"">>, <<"\"","}">>),
       matchQuotedCall(str, pos, <<"D","a","t","e">>, <<"{","\"","$","d","a","t","e","\"",":","\"">>, <<"\"","}">>),
       matchNumberCall(str, pos, <<"N","u","m","b","e","r","L","o","n","g">>, "required", <<"{","\"","$","n","u","m","b","e","r","L","o","n","g","\"",":","\"">>, <<"\"","}">>),
       matchNumberCall(str, pos, <<"N","u","m","b","e","r","L","o","n","g">>, "none", <<"{","\"","$","n","u","m","b","e","r","L","o","n","g","\"",":","\"">>, <<"\"","}">>),
       matchNumberCall(str, pos, <<"N","u","m","b","e","r","I","n","t">>, "optional", <<>>, <<>>) >>

\* the first of the results of the patterns, in order, that matched
firstMatch(results) ==
    LET hits == {k \in 1..Len(results) : results[k].matched}
    IN  IF hits = {} THEN NoMatch
        ELSE results[CHOOSE k \in hits : \A h \in hits : k <= h]

\* tryMatchBson: the first pattern that matches at pos
tryMatchBson(str, pos) == firstMatch(BSON_PATTERNS(str, pos))

\* One iteration of the loop of convertToJson: the branch taken at cursor
\* from, the text it pushes and the cursor it leaves.
mkStep(branch, from, next, text) ==
    [branch |-> branch, from |-> from, next |-> next, text |-> text]

\* a double-quoted string is copied up to its closing quote at end
doubleQuoteStep(str, i, end) ==
    mkStep("double", i, end + 1, slice(str, i, end))

\* a single-quoted string is re-quoted, its double quotes escaped
singleQuoteStep(str, i, end) ==
    mkStep("single", i, end + 1,
           <<"\"">> \o escapeDoubleQuotes(slice(str, i + 1, end - 1)) \o <<"\"">>)

\* after an opening brace or a kept comma: the character, then the result
\* wsKey of skipWhitespaceAndMatchKey
keyStep(branch, i, char, wsKey) ==
    mkStep(branch, i, wsKey.pos, <<char>> \o wsKey.text)

\* Mutation of commaStep: every comma is kept
commaStepKeepAll(str, i, peek) ==
    keyStep("comma", i, ",", skipWhitespaceAndMatchKey(str, i + 1))

\* a comma whose next non-whitespace character, at peek, closes a bracket
\* is dropped; any other comma is kept
commaStep(str, i, peek) ==
    IF peek <= Len(str) /\ str[peek] \in {"}", "]"}
    THEN mkStep("trailing", i, peek, <<>>)
    ELSE keyStep("comma", i, ",", skipWhitespaceAndMatchKey(str, i + 1))

\* a matched BSON constructor is replaced; any other character is copied
bsonStep(str, i, bsonResult) ==
    IF bsonResult.matched
    THEN mkStep("bson", i, i + bsonResult.consumed, bsonResult.replacement)
    ELSE mkStep("copy", i, i + 1, <<str[i]>>)

\* Mutation of convertStep: a scanner that knows no string contexts
convertStepNoStrings(str, i) ==
    IF str[i] = "{" THEN keyStep("brace", i, "{", skipWhitespaceAndMatchKey(str, i + 1))
    ELSE IF str[i] = "," THEN commaStep(str, i, skipWhile(str, i + 1, JsWhitespace))
    ELSE CHOOSE step \in {bsonStep(str, i, bsonResult) : bsonResult \in {tryMatchBson(str, i)}} : TRUE

\* the five branches of the loop body; const bsonResult = tryMatchBson(str, i)
\* is computed once, for the one value it has
convertStep(str, i) ==
    IF str[i] = "\"" THEN doubleQuoteStep(str, i, findClosingQuote(str, i, "\""))
    ELSE IF str[i] = "'" THEN singleQuoteStep(str, i, findClosingQuote(str, i, "'"))
    ELSE IF str[i] = "{" THEN keyStep("brace", i, "{", skipWhitespaceAndMatchKey(str, i + 1))
    ELSE IF str[i] = "," THEN commaStep(str, i, skipWhile(str, i + 1, JsWhitespace))
    ELSE CHOOSE step \in {bsonStep(str, i, bsonResult) : bsonResult \in {tryMatchBson(str, i)}} : TRUE

\* the iterations of the loop of convertToJson, in order
RECURSIVE convertSteps(_, _)
stepsFrom(str, step) == <<step>> \o convertSteps(str, step.next)

convertSteps(str, i) ==
    IF i > Len(str) THEN <<>> ELSE stepsFrom(str, convertStep(str, i))

\* result.join of the pushed texts
joinSteps(steps) == concatAll([k \in 1..Len(steps) |-> steps[k].text])

convertToJson(str) == joinSteps(convertSteps(str, 1))
----------------------------------------------------------------------------
(* Values: what JSON.parse and deserializeBsonTypes produce.  t is the kind: *)
(* "null", "true", "false", "num", "str", "arr", "obj", and the native     *)
(* "oid", "date", "long"; "undef" is JavaScript's undefined.  s is the text *)
(* of a number, string or native value; an array has kids; an object has    *)
(* keys and kids of equal length, in insertion order.                       *)

mkVal(t, s, keys, kids) == [t |-> t, s |-> s, keys |-> keys, kids |-> kids]

Null == mkVal("null", <<>>, <<>>, <<>>)
Undefined == mkVal("undef", <<>>, <<>>, <<>>)
Bool(b) == mkVal(IF b THEN "true" ELSE "false", <<>>, <<>>, <<>>)
Num(text) == mkVal("num", text, <<>>, <<>>)
Str(text) == mkVal("str", text, <<>>, <<>>)
Arr(kids) == mkVal("arr", <<>>, <<>>, kids)
Obj(keys, kids) == mkVal("obj", <<>>, keys, kids)

\* obj[key] = val on an object held as keys and kids: a repeated key keeps
\* its place and takes the new value
putMember(obj, key, val) ==
    LET at == {k \in 1..Len(obj.keys) : obj.keys[k] = key}
    IN  IF at = {} THEN Obj(Append(obj.keys, key), Append(obj.kids, val))
        ELSE Obj(obj.keys, [k \in 1..Len(obj.kids) |-> IF k \in at THEN val ELSE obj.kids[k]])

----------------------------------------------------------------------------
(* JSON.parse *)

JsonFail == [ok |-> FALSE, val |-> Null, pos |-> 0]
JsonOk(val, pos) == [ok |-> TRUE, val |-> val, pos |-> pos]

\* the character a \uXXXX escape denotes, for the code points the inputs use
codeUnit(hex) ==
    LET h == toLowerCase(hex)
    IN  CASE h = <<"0","0","2","2">> -> "\""
          [] h = <<"0","0","2","4">> -> "$"
          [] h = <<"0","0","2","7">> -> "'"
          [] h = <<"0","0","2","c">> -> ","
          [] h = <<"0","0","5","c">> -> "\\"
          [] OTHER -> "u+" \o h[1] \o h[2] \o h[3] \o h[4]

\* the character a two-character escape denotes; the empty string when it
\* is no escape
simpleEscape(c) ==
    CASE c = "\"" -> "\"" [] c = "\\" -> "\\" [] c = "/" -> "/"
      [] c = "b" -> "u+0008" [] c = "f" -> "\f" [] c = "n" -> "\n"
      [] c = "r" -> "\r" [] c = "t" -> "\t" [] OTHER -> ""

\* a JSON string whose opening quote is before position i
RECURSIVE jsonString(_, _, _)
jsonString(s, i, acc) ==
    IF i > Len(s) THEN JsonFail
    ELSE IF s[i] = "\"" THEN JsonOk(Str(acc), i + 1)
    ELSE IF s[i] = "\\" THEN
        IF i + 1 > Len(s) THEN JsonFail
        ELSE IF simpleEscape(s[i + 1]) # ""
        THEN jsonString(s, i + 2, Append(acc, simpleEscape(s[i + 1])))
        ELSE IF /\ s[i + 1] = "u"
                /\ i + 5 <= Len(s)
                /\ \A k \in (i + 2)..(i + 5) : s[k] \in HexChars
        THEN jsonString(s, i + 6, Append(acc, codeUnit(slice(s, i + 2, i + 5))))
        ELSE JsonFail
    ELSE IF s[i] \in ControlChars THEN JsonFail
    ELSE jsonString(s, i + 1, Append(acc, s[i]))

\* a JSON number at position i: -?(0|[1-9]\d*)(\.\d+)?([eE][+-]?\d+)?
jsonNumber(s, i) ==
    LET int0    == IF s[i] = "-" THEN i + 1 ELSE i
        intEnd  == IF int0 <= Len(s) /\ s[int0] = "0" THEN int0 + 1
                   ELSE skipWhile(s, int0, Digits)
        hasFrac == intEnd <= Len(s) /\ s[intEnd] = "."
        fracEnd == IF hasFrac THEN skipWhile(s, intEnd + 1, Digits) ELSE intEnd
        hasExp  == fracEnd <= Len(s) /\ s[fracEnd] \in {"e", "E"}
        exp0    == IF hasExp /\ fracEnd + 1 <= Len(s) /\ s[fracEnd + 1] \in {"+", "-"}
                   THEN fracEnd + 2 ELSE fracEnd + 1
        expEnd  == IF hasExp THEN skipWhile(s, exp0, Digits) ELSE fracEnd
    IN  IF \/ intEnd = int0
           \/ (hasFrac /\ fracEnd = intEnd + 1)
           \/ (hasExp /\ expEnd = exp0)
        THEN JsonFail
        ELSE JsonOk(Num(slice(s, i, expEnd - 1)), expEnd)

jsonLiteral(s, i, word, val) ==
    IF startsWithAt(s, i, word) THEN JsonOk(val, i + Len(word)) ELSE JsonFail

RECURSIVE jsonValue(_, _)
RECURSIVE jsonElements(_, _, _)
RECURSIVE jsonMembers(_, _, _)

\* the elements of an array after the bracket, the first of them expected at i
jsonElements(s, i, acc) ==
    LET r == jsonValue(s, i)
        j == skipWhile(s, r.pos, JsonWhitespace)
    IN  IF ~r.ok \/ j > Len(s) THEN JsonFail
        ELSE IF s[j] = "," THEN jsonElements(s, j + 1, Append(acc, r.val))
        ELSE IF s[j] = "]" THEN JsonOk(Arr(Append(acc, r.val)), j + 1)
        ELSE JsonFail

\* the members of an object after the brace, the first key expected at i
jsonMembers(s, i, obj) ==
    LET k     == skipWhile(s, i, JsonWhitespace)
        key   == IF k <= Len(s) /\ s[k] = "\"" THEN jsonString(s, k + 1, <<>>) ELSE JsonFail
        colon == skipWhile(s, key.pos, JsonWhitespace)
    IN  IF ~key.ok \/ colon > Len(s) \/ s[colon] # ":" THEN JsonFail
        ELSE LET r == jsonValue(s, colon + 1)
                 j == skipWhile(s, r.pos, JsonWhitespace)
             IN  IF ~r.ok \/ j > Len(s) THEN JsonFail
                 ELSE IF s[j] = "," THEN jsonMembers(s, j + 1, putMember(obj, key.val.s, r.val))
                 ELSE IF s[j] = "}" THEN JsonOk(putMember(obj, key.val.s, r.val), j + 1)
                 ELSE JsonFail

\* a JSON value at or after position i0
jsonValue(s, i0) ==
    LET i == skipWhile(s, i0, JsonWhitespace)
    IN  IF i > Len(s) THEN JsonFail
        ELSE IF s[i] = "\"" THEN jsonString(s, i + 1, <<>>)
        ELSE IF s[i] = "[" THEN
            LET j == skipWhile(s, i + 1, JsonWhitespace)
            IN  IF j <= Len(s) /\ s[j] = "]" THEN JsonOk(Arr(<<>>), j + 1)
                ELSE jsonElements(s, j, <<>>)
        ELSE IF s[i] = "{" THEN
            LET j == skipWhile(s, i + 1, JsonWhitespace)
            IN  IF j <= Len(s) /\ s[j] = "}" THEN JsonOk(Obj(<<>>, <<>>), j + 1)
                ELSE jsonMembers(s, j, Obj(<<>>, <<>>))
        ELSE IF s[i] = "t" THEN jsonLiteral(s, i, <<"t","r","u","e">>, Bool(TRUE))
        ELSE IF s[i] = "f" THEN jsonLiteral(s, i, <<"f","a","l","s","e">>, Bool(FALSE))
        ELSE IF s[i] = "n" THEN jsonLiteral(s, i, <<"n","u","l","l">>, Null)
        ELSE IF s[i] \in Digits \cup {"-"} THEN jsonNumber(s, i)
        ELSE JsonFail

\* JSON.parse(text): one value and nothing but whitespace after it
JSONparse(text) ==
    LET r == jsonValue(text, 1)
    IN  IF r.ok /\ skipWhile(text, r.pos, JsonWhitespace) > Len(text) THEN r ELSE JsonFail

----------------------------------------------------------------------------
(* Value materializer: deserializeBsonTypes and parseArguments *)

Threw == [ok |-> FALSE, val |-> Null]
Returned(val) == [ok |-> TRUE, val |-> val]

\* Mutation of newObjectId: the canonical form keeps the letter case given
newObjectIdAsGiven(text) ==
    IF Len(text) = 24 /\ \A k \in 1..Len(text) : text[k] \in HexChars
    THEN Returned(mkVal("oid", text, <<>>, <<>>))
    ELSE Threw

\* new ObjectId(text) of the driver: a 24-digit hexadecimal text, whose
\* canonical form toHexString() is in lower case; anything else throws
newObjectId(text) ==
    IF Len(text) = 24 /\ \A k \in 1..Len(text) : text[k] \in HexChars
    THEN Returned(mkVal("oid", toLowerCase(text), <<>>, <<>>))
    ELSE Threw

\* a text of the date form YYYY-MM-DD
isDateForm(text) ==
    /\ Len(text) = 10
    /\ text[5] = "-" /\ text[8] = "-"
    /\ \A k \in {1, 2, 3, 4, 6, 7, 9, 10} : text[k] \in Digits

\* the month and the day of a text of the date form are in range
inCalendar(text) ==
    /\ slice(text, 6, 7) \in {<<"0","1">>, <<"0","2">>, <<"0","3">>, <<"0","4">>, <<"0","5">>, <<"0","6">>,
                              <<"0","7">>, <<"0","8">>, <<"0","9">>, <<"1","0">>, <<"1","1">>, <<"1","2">>}
    /\ slice(text, 9, 10) # <<"0","0">>
    /\ text[9] \in {"0", "1", "2"} \/ slice(text, 9, 10) \in {<<"3","0">>, <<"3","1">>}

InvalidDate == mkVal("date", <<"I","n","v","a","l","i","d"," ","D","a","t","e">>, <<>>, <<>>)

\* new Date(text): never throws.  A text of the date form is an instant when
\* its month and day are in range, and a text without any digit is no date:
\* both give the Invalid Date object.  An instant is held as the text given.
newDate(text) ==
    IF isDateForm(text) /\ ~inCalendar(text) THEN Returned(InvalidDate)
    ELSE IF \A k \in 1..Len(text) : text[k] \notin Digits THEN Returned(InvalidDate)
    ELSE Returned(mkVal("date", text, <<>>, <<>>))

\* Decimal texts as numbers: most significant digit first
DigitSeq == <<"0", "1", "2", "3", "4", "5", "6", "7", "8", "9">>

digitVal(c) == (CHOOSE k \in 1..10 : DigitSeq[k] = c) - 1

\* a decimal text without its leading zeros, given its first nonzero place
canonicalDigits(digits, nz) ==
    IF nz > Len(digits) THEN <<"0">> ELSE slice(digits, nz, Len(digits))

stripZeros(digits) == canonicalDigits(digits, skipUntil(digits, 1, Digits \ {"0"}))

signedDigits(neg, canon) ==
    (IF neg /\ canon # <<"0">> THEN <<"-">> ELSE <<>>) \o canon

\* digits with zeros before it, n places in all
padTo(digits, n) ==
    [k \in 1..n |-> IF k <= n - Len(digits) THEN "0" ELSE digits[k - (n - Len(digits))]]

\* a >= b for decimal texts without leading zeros
decGeq(a, b) ==
    \/ Len(a) > Len(b)
    \/ /\ Len(a) = Len(b)
       /\ \/ a = b
          \/ \E i \in 1..Len(a) :
                /\ digitVal(a[i]) > digitVal(b[i])
                /\ \A j \in 1..(i - 1) : a[j] = b[j]

\* the borrow out of place k when b is taken from a, both of one length
RECURSIVE borrowAt(_, _, _)
borrowAt(a, b, k) ==
    IF k > Len(a) THEN 0
    ELSE IF digitVal(a[k]) - digitVal(b[k]) - borrowAt(a, b, k + 1) < 0 THEN 1
    ELSE 0

decSubPadded(a, b) ==
    stripZeros([k \in 1..Len(a) |->
        DigitSeq[((digitVal(a[k]) - digitVal(b[k]) - borrowAt(a, b, k + 1) + 10) % 10) + 1]])

\* a - b for a >= b
decSub(a, b) == decSubPadded(a, padTo(b, Len(a)))

\* 2^64 and 2^63
TwoTo64 == <<"1","8","4","4","6","7","4","4","0","7","3","7","0","9","5","5","1","6","1","6">>
TwoTo63 == <<"9","2","2","3","3","7","2","0","3","6","8","5","4","7","7","5","8","0","8">>

\* n less than ten times 2^64, reduced below 2^64
RECURSIVE reduce64(_)
reduce64(n) == IF decGeq(n, TwoTo64) THEN reduce64(decSub(n, TwoTo64)) ELSE n

\* the number acc followed by the digits rest, modulo 2^64: the arithmetic of
\* Long (mul and add) is modulo 2^64
RECURSIVE mod64(_, _)
mod64(acc, rest) ==
    IF acc = <<>> \/ rest = <<>> THEN acc
    ELSE mod64(reduce64(stripZeros(Append(acc, Head(rest)))), Tail(rest))

\* the signed 64-bit number an unsigned one below 2^64 stands for
toSigned(u) ==
    IF decGeq(u, TwoTo63) THEN [ok |-> TRUE, neg |-> TRUE, mag |-> decSub(TwoTo64, u)]
    ELSE [ok |-> TRUE, neg |-> FALSE, mag |-> u]

\* Mutation of negSigned: the sign is not taken
negSignedKept(r) == r

\* Long.prototype.neg: the least value is its own negation
negSigned(r) ==
    IF ~r.ok \/ (r.neg /\ r.mag = TwoTo63) THEN r
    ELSE [r EXCEPT !.neg = ~r.neg /\ r.mag # <<"0">>]

\* parseInt(chunk, 10) written in Len(chunk) places: whitespace and a plus
\* sign are passed over, the digits that follow are the value, none is NaN,
\* which Long.fromNumber takes as zero
chunkDigits(chunk) ==
    LET s == skipWhile(chunk, 1, JsWhitespace)
        p == IF s <= Len(chunk) /\ chunk[s] = "+" THEN s + 1 ELSE s
    IN  padTo(slice(chunk, p, skipWhile(chunk, p, Digits) - 1), Len(chunk))

\* the chunks of eight characters Long.fromString reads, each as its digits
RECURSIVE allChunks(_)
allChunks(text) ==
    IF text = <<>> THEN <<>>
    ELSE chunkDigits(slice(text, 1, 8)) \o allChunks(slice(text, 9, Len(text)))

LongFailed == [ok |-> FALSE, neg |-> FALSE, mag |-> <<"0">>]

\* Long.fromString(text, false, 10) as a signed number: the empty text and a
\* hyphen after the first place throw, a leading hyphen negates the rest, and
\* a number outside the 64-bit range wraps around
RECURSIVE longSigned(_)
longSigned(text) ==
    IF text = <<>> THEN LongFailed
    ELSE IF text \in {<<"N","a","N">>, <<"I","n","f","i","n","i","t","y">>, <<"+","I","n","f","i","n","i","t","y">>, <<"-","I","n","f","i","n","i","t","y">>}
    THEN [ok |-> TRUE, neg |-> FALSE, mag |-> <<"0">>]
    ELSE IF Head(text) = "-" THEN negSigned(longSigned(Tail(text)))
    ELSE IF \E k \in 1..Len(text) : text[k] = "-" THEN LongFailed
    ELSE toSigned(mod64(<<"0">>, allChunks(text)))

\* the Long held as its decimal text toString()
longOf(r) ==
    IF r.ok THEN Returned(mkVal("long", signedDigits(r.neg, r.mag), <<>>, <<>>))
    ELSE Threw

longFromString(text) == longOf(longSigned(text))

RECURSIVE deserializeBsonTypes(_)
RECURSIVE deserializeEach(_)

EachFailed == [ok |-> FALSE, vals |-> <<>>]

consDeserialized(h, t) ==
    IF ~t.ok THEN t ELSE [ok |-> TRUE, vals |-> <<h.val>> \o t.vals]

eachAfter(h, rest) ==
    IF ~h.ok THEN EachFailed ELSE consDeserialized(h, deserializeEach(rest))

\* value.map((item) => deserializeBsonTypes(item)) and the loop over
\* Object.entries(value); the first throw ends it
deserializeEach(vals) ==
    IF vals = <<>> THEN [ok |-> TRUE, vals |-> <<>>]
    ELSE eachAfter(deserializeBsonTypes(Head(vals)), Tail(vals))

\* the array or the object rebuilt from its deserialized members
rebuilt(value, r) ==
    IF ~r.ok THEN Threw
    ELSE IF value.t = "arr" THEN Returned(Arr(r.vals))
    ELSE Returned(Obj(value.keys, r.vals))

\* the keys.length === 1 test of a wrapper whose value is a string
isWrapper(value, key) ==
    Len(value.keys) = 1 /\ value.keys[1] = key /\ value.kids[1].t = "str"

deserializeBsonTypes(value) ==
    IF value.t = "arr" THEN rebuilt(value, deserializeEach(value.kids))
    ELSE IF value.t # "obj" THEN Returned(value)
    ELSE IF isWrapper(value, <<"$","o","i","d">>) THEN newObjectId(value.kids[1].s)
    ELSE IF isWrapper(value, <<"$","d","a","t","e">>) THEN newDate(value.kids[1].s)
    ELSE IF isWrapper(value, <<"$","n","u","m","b","e","r","L","o","n","g">>) THEN longFromString(value.kids[1].s)
    ELSE rebuilt(value, deserializeEach(value.kids))

\* Mutation of rawFallback: the catch block returns no argument
emptyFallback(trimmed) == <<>>

\* the fallback of parseArguments: the trimmed text as the only argument
rawFallback(trimmed) == <<Str(trimmed)>>

\* parsed.map(deserializeBsonTypes) over the JSON array, when it parsed
deserializeParsed(json) ==
    IF json.ok THEN deserializeEach(json.val.kids) ELSE EachFailed

\* the try block returns the values; the catch block returns the fallback
materialized(trimmed, values) ==
    IF values.ok THEN [raised |-> FALSE, list |-> values.vals]
    ELSE [raised |-> FALSE, list |-> rawFallback(trimmed)]

parseTrimmed(trimmed) ==
    IF trimmed = <<>> THEN [raised |-> FALSE, list |-> <<>>]
    ELSE materialized(trimmed,
             deserializeParsed(JSONparse(<<"[">> \o convertToJson(trimmed) \o <<"]">>)))

\* parseArguments: raised is an exception leaving the function
parseArguments(argsStr) == parseTrimmed(trim(argsStr))

----------------------------------------------------------------------------
(* Command splitter and query classifier *)

\* READONLY_METHODS of types/index.ts
READONLY_METHODS ==
    { <<"f","i","n","d">>, <<"f","i","n","d","O","n","e">>, <<"c","o","u","n","t","D","o","c","u","m","e","n","t","s">>, <<"e","s","t","i","m","a","t","e","d","D","o","c","u","m","e","n","t","C","o","u","n","t">>,
      <<"a","g","g","r","e","g","a","t","e">>, <<"g","e","t","I","n","d","e","x","e","s">>, <<"i","n","d","e","x","e","s">>, <<"s","t","a","t","s">>,
      <<"l","i","s","t","C","o","l","l","e","c","t","i","o","n","s">>, <<"l","i","s","t","D","a","t","a","b","a","s","e","s">> }

\* WRITE_METHODS of types/index.ts
WRITE_METHODS ==
    { <<"i","n","s","e","r","t","O","n","e">>, <<"i","n","s","e","r","t","M","a","n","y">>, <<"u","p","d","a","t","e","O","n","e">>, <<"u","p","d","a","t","e","M","a","n","y">>, <<"r","e","p","l","a","c","e","O","n","e">>,
      <<"d","e","l","e","t","e","O","n","e">>, <<"d","e","l","e","t","e","M","a","n","y">>, <<"d","r","o","p">>, <<"d","r","o","p","D","a","t","a","b","a","s","e">>, <<"c","r","e","a","t","e","I","n","d","e","x">>,
      <<"d","r","o","p","I","n","d","e","x">>, <<"d","r","o","p","I","n","d","e","x","e","s">>, <<"c","r","e","a","t","e","C","o","l","l","e","c","t","i","o","n">>, <<"r","e","n","a","m","e","C","o","l","l","e","c","t","i","o","n">> }

\* Mutation of getQueryType: the tables are looked up without regard to case
getQueryTypeIgnoreCase(method) ==
    IF toLowerCase(method) \in {toLowerCase(m) : m \in READONLY_METHODS} THEN "read"
    ELSE IF toLowerCase(method) \in {toLowerCase(m) : m \in WRITE_METHODS} THEN "write"
    ELSE "unknown"

\* getQueryType
getQueryType(method) ==
    IF method \in READONLY_METHODS THEN "read"
    ELSE IF method \in WRITE_METHODS THEN "write"
    ELSE "unknown"

\* A ParsedQuery; hasCollection and hasMethod tell whether the optional
\* fields are present.
mkParsed(type, hasCollection, collection, hasMethod, method, list) ==
    [type |-> type, hasCollection |-> hasCollection, collection |-> collection,
     hasMethod |-> hasMethod, method |-> method, args |-> list, raised |-> FALSE]

UnknownQuery == mkParsed("unknown", FALSE, <<>>, FALSE, <<>>, <<>>)
AdminQuery(method, list) == mkParsed("admin", FALSE, <<>>, TRUE, method, list)

\* parseShowCommand: parts[1] of the lowered text split on whitespace
showTarget(target) ==
    IF target \in {<<"d","b","s">>, <<"d","a","t","a","b","a","s","e","s">>} THEN AdminQuery(<<"l","i","s","t","D","a","t","a","b","a","s","e","s">>, <<>>)
    ELSE IF target \in {<<"c","o","l","l","e","c","t","i","o","n","s">>, <<"t","a","b","l","e","s">>} THEN AdminQuery(<<"l","i","s","t","C","o","l","l","e","c","t","i","o","n","s">>, <<>>)
    ELSE UnknownQuery

\* the whitespace-separated part of lower that begins at from
partAt(lower, from) == slice(lower, from, skipUntil(lower, from, JsWhitespace) - 1)

secondPart(lower) ==
    partAt(lower, skipWhile(lower, skipUntil(lower, 1, JsWhitespace), JsWhitespace))

\* Mutation of parseShowCommand: the text is not lowered
parseShowCommandCaseSensitive(query) == showTarget(secondPart(query))

parseShowCommand(query) == showTarget(secondPart(toLowerCase(query)))

\* parseUseCommand: /^use\s+(\w+)/i, the name running from from up to to
useMatch(query, from, to) ==
    IF /\ startsWithAt(toLowerCase(query), 1, <<"u","s","e">>)
       /\ from > 4
       /\ to > from
    THEN AdminQuery(<<"u","s","e">>, <<Str(slice(query, from, to - 1))>>)
    ELSE UnknownQuery

useName(query, from) == useMatch(query, from, skipWhile(query, from, WordChars))

parseUseCommand(query) == useName(query, skipWhile(query, 4, JsWhitespace))

\* the last position of str holding character c, 0 if none
lastIndexOf(str, c) ==
    LET at == {k \in 1..Len(str) : str[k] = c}
    IN  IF at = {} THEN 0 ELSE CHOOSE k \in at : \A j \in at : j <= k

\* /^db\.([\w.]+)\.(\w+)\(([\s\S]*)\)$/: the path runs to the first character
\* that is neither a word character nor a dot, which must be the parenthesis;
\* the method is what follows the last dot of the path; the text must end with
\* a closing parenthesis.
matchAt(query, paren, path, dot) ==
    [matched    |-> /\ startsWithAt(query, 1, <<"d","b",".">>)
                    /\ paren <= Len(query) /\ query[paren] = "("
                    /\ dot > 1 /\ dot < Len(path)
                    /\ Len(query) > paren /\ query[Len(query)] = ")",
     collection |-> slice(path, 1, dot - 1),
     method     |-> slice(path, dot + 1, Len(path)),
     argsStr    |-> slice(query, paren + 1, Len(query) - 1)]

\* Mutation of matchPath: the method begins after the first dot of the path
matchPathFirstDot(query, paren, path) ==
    matchAt(query, paren, path, skipUntil(path, 1, {"."}))

matchPath(query, paren, path) == matchAt(query, paren, path, lastIndexOf(path, "."))

matchParen(query, paren) == matchPath(query, paren, slice(query, 4, paren - 1))

collMethodMatch(query) == matchParen(query, skipWhile(query, 4, WordChars \cup {"."}))

\* the ParsedQuery of a collection operation
collectionQuery(m, parsedArgs) ==
    [mkParsed(getQueryType(m.method), TRUE, m.collection, TRUE, m.method, parsedArgs.list)
        EXCEPT !.raised = parsedArgs.raised]

\* Mutation of matchedQuery: the failed match is not tested
matchedQueryUnchecked(m) == collectionQuery(m, parseArguments(m.argsStr))

\* if (!collMethodMatch) return unknown
matchedQuery(m) ==
    IF m.matched THEN collectionQuery(m, parseArguments(m.argsStr)) ELSE UnknownQuery

\* parseDbQuery
parseDbQuery(query) ==
    IF query = <<"d","b",".","s","t","a","t","s","(",")">> THEN AdminQuery(<<"d","b","S","t","a","t","s">>, <<>>)
    ELSE IF query = <<"d","b",".","d","r","o","p","D","a","t","a","b","a","s","e","(",")">> THEN AdminQuery(<<"d","r","o","p","D","a","t","a","b","a","s","e">>, <<>>)
    ELSE IF query = <<"d","b",".","g","e","t","C","o","l","l","e","c","t","i","o","n","N","a","m","e","s","(",")">> THEN AdminQuery(<<"l","i","s","t","C","o","l","l","e","c","t","i","o","n","s">>, <<>>)
    ELSE matchedQuery(collMethodMatch(query))

\* the dispatch of parseQuery on the trimmed text
parseCommand(trimmed) ==
    IF startsWithAt(toLowerCase(trimmed), 1, <<"s","h","o","w"," ">>) THEN parseShowCommand(trimmed)
    ELSE IF startsWithAt(toLowerCase(trimmed), 1, <<"u","s","e"," ">>) THEN parseUseCommand(trimmed)
    ELSE IF startsWithAt(trimmed, 1, <<"d","b",".">>) THEN parseDbQuery(trimmed)
    ELSE UnknownQuery

\* parseQuery
parseQuery(query) == parseCommand(trim(query))

\* readonlyAdminMethods of isReadonlyOperation
readonlyAdminMethods == {<<"l","i","s","t","D","a","t","a","b","a","s","e","s">>, <<"l","i","s","t","C","o","l","l","e","c","t","i","o","n","s">>, <<"u","s","e">>, <<"d","b","S","t","a","t","s">>}

\* Mutation of isReadonlyOperation: every admin command passes
isReadonlyAnyAdmin(p) == p.type \in {"read", "admin"}

\* isReadonlyOperation; a missing method reads as the empty text
isReadonlyOperation(p) ==
    IF p.type = "read" THEN TRUE
    ELSE IF p.type = "admin"
    THEN (IF p.hasMethod THEN p.method ELSE <<>>) \in readonlyAdminMethods
    ELSE FALSE

\* writeStages of hasWriteStages
writeStages == {<<"$","o","u","t">>, <<"$","m","e","r","g","e">>}

\* typeof stage === 'object' && stage !== null
isNonNullObject(stage) == stage.t \in {"arr", "obj", "oid", "date", "long"}

\* ws in stage: a key of a plain object
hasKey(stage, ws) == stage.t = "obj" /\ \E k \in 1..Len(stage.keys) : stage.keys[k] = ws

\* Mutation of hasWriteStages: only the first stage is looked at
hasWriteStagesFirstOnly(pipeline) ==
    /\ pipeline # <<>>
    /\ isNonNullObject(pipeline[1])
    /\ \E ws \in writeStages : hasKey(pipeline[1], ws)

\* hasWriteStages on the elements of an array
hasWriteStages(pipeline) ==
    \E k \in 1..Len(pipeline) :
        /\ isNonNullObject(pipeline[k])
        /\ \E ws \in writeStages : hasKey(pipeline[k], ws)

----------------------------------------------------------------------------
(* Client manager and executor (src/lib/client.ts, src/lib/executor.ts) *)

\* The manager's fields after construction.  client is "null", or a
\* MongoClient that is "connected" or, its connect() having been rejected,
\* "unconnected"; currentDbName is Null or a Str.
NewManager == [client |-> "null", currentDbName |-> Null]

\* a JavaScript value used as a condition
truthy(v) ==
    /\ v.t \notin {"null", "undef", "false"}
    /\ ~(v.t = "str" /\ v.s = <<>>)
    /\ ~(v.t = "num" /\ v.s \in {<<"0">>, <<"-", "0">>})

\* Mutation of connect: a client is made and connected whether or not the
\* manager holds one
connectAnew(manager, dbFromUri, driverOk) ==
    IF ~driverOk THEN [manager EXCEPT !.client = "unconnected"]
    ELSE [client |-> "connected",
          currentDbName |-> IF truthy(dbFromUri) THEN dbFromUri ELSE manager.currentDbName]

\* connect(uri): dbFromUri is what parseDbFromUri makes of the uri, a Str or
\* Null; the client is assigned before its connect() is awaited
connect(manager, dbFromUri, driverOk) ==
    IF manager.client # "null" THEN manager
    ELSE IF ~driverOk THEN [manager EXCEPT !.client = "unconnected"]
    ELSE [client |-> "connected",
          currentDbName |-> IF truthy(dbFromUri) THEN dbFromUri ELSE manager.currentDbName]

\* close(): the fields are reset after client.close() was awaited
close(manager, driverOk) ==
    IF manager.client = "null" \/ ~driverOk THEN manager ELSE NewManager

\* a call made on the client manager or on the driver
Call(target, op, a) == [target |-> target, op |-> op, a |-> a]

\* the calls connect() makes of the driver: none when a client is held
connectCalls(manager) ==
    IF manager.client # "null" THEN <<>>
    ELSE <<Call("driver", "new MongoClient", <<>>), Call("client", "connect", <<>>)>>

\* the calls close() makes of the driver: none when no client is held
closeCalls(manager) ==
    IF manager.client = "null" THEN <<>> ELSE <<Call("client", "close", <<>>)>>

\* isConnected()
isConnected(manager) == manager.client # "null"

\* args[k], undefined past the end
argAt(list, k) == IF k <= Len(list) THEN list[k] ELSE Undefined

\* the outcome of a piece of the executor: what it called, whether it threw
\* and with which error, the data it returned and the manager afterwards
Outcome(callsMade, error, data, manager) ==
    [calls |-> callsMade, threw |-> error # "", error |-> error, data |-> data, mgr |-> manager]

\* the driver promise of an awaited call: resolved, or rejected
settled(callsMade, driverOk, manager) ==
    Outcome(callsMade, IF driverOk THEN "" ELSE "driver error", Str(<<"o","k">>), manager)

\* mongoClient.getDb() with no name: the error it throws, "" when it
\* returns the database
getDbError(manager) ==
    IF manager.client = "null" THEN "Not connected"
    ELSE IF ~truthy(manager.currentDbName) THEN "No database selected"
    ELSE ""

GetDb == Call("mongoClient", "getDb", <<>>)

\* Mutation of viaDb: a call the driver rejects drops the connection
viaDbDropping(manager, op, driverOk) ==
    IF getDbError(manager) # "" THEN Outcome(<<GetDb>>, getDbError(manager), Null, manager)
    ELSE settled(<<GetDb, Call("db", op, <<>>)>>, driverOk,
                 IF driverOk THEN manager ELSE NewManager)

\* mongoClient.getDb(), then an awaited call on the database
viaDb(manager, op, driverOk) ==
    IF getDbError(manager) # "" THEN Outcome(<<GetDb>>, getDbError(manager), Null, manager)
    ELSE settled(<<GetDb, Call("db", op, <<>>)>>, driverOk, manager)

GetAdmin == Call("mongoClient", "getAdmin", <<>>)

\* mongoClient.getAdmin(), then admin.listDatabases()
viaAdmin(manager, driverOk) ==
    IF manager.client = "null" THEN Outcome(<<GetAdmin>>, "Not connected", Null, manager)
    ELSE settled(<<GetAdmin, Call("admin", "listDatabases", <<>>)>>, driverOk, manager)

\* mongoClient.setCurrentDb(dbName)
setCurrentDb(manager, dbName) == [manager EXCEPT !.currentDbName = dbName]

\* executeAdminOperation
executeAdminOperation(method, list, manager, driverOk) ==
    IF method = <<"l","i","s","t","D","a","t","a","b","a","s","e","s">> THEN viaAdmin(manager, driverOk)
    ELSE IF method = <<"l","i","s","t","C","o","l","l","e","c","t","i","o","n","s">> THEN viaDb(manager, "listCollections", driverOk)
    ELSE IF method = <<"u","s","e">> THEN
        Outcome(<<Call("mongoClient", "setCurrentDb", <<argAt(list, 1)>>)>>, "",
                Str(<<"s","w","i","t","c","h","e","d">>), setCurrentDb(manager, argAt(list, 1)))
    ELSE IF method = <<"d","b","S","t","a","t","s">> THEN viaDb(manager, "stats", driverOk)
    ELSE IF method = <<"d","r","o","p","D","a","t","a","b","a","s","e">> THEN viaDb(manager, "dropDatabase", driverOk)
    ELSE Outcome(<<>>, "Unsupported admin method", Null, manager)

\* the arguments args[0] .. args[n-1] handed to a driver call
firstArgs(list, n) == [k \in 1..n |-> argAt(list, k)]

\* the switch of executeOperation: the driver call of each collection method
\* and the arguments it is given; "" for a method the switch does not know
collectionCall(method, list) ==
    CASE method = <<"f","i","n","d">> -> Call("coll", "find", firstArgs(list, 2))
      [] method = <<"f","i","n","d","O","n","e">> -> Call("coll", "findOne", firstArgs(list, 2))
      [] method = <<"c","o","u","n","t","D","o","c","u","m","e","n","t","s">> -> Call("coll", "countDocuments", firstArgs(list, 1))
      [] method = <<"e","s","t","i","m","a","t","e","d","D","o","c","u","m","e","n","t","C","o","u","n","t">> -> Call("coll", "estimatedDocumentCount", <<>>)
      [] method = <<"a","g","g","r","e","g","a","t","e">> -> Call("coll", "aggregate", firstArgs(list, 1))
      [] method \in {<<"g","e","t","I","n","d","e","x","e","s">>, <<"i","n","d","e","x","e","s">>} -> Call("coll", "indexes", <<>>)
      [] method = <<"s","t","a","t","s">> -> Call("db", "command", <<>>)
      [] method = <<"i","n","s","e","r","t","O","n","e">> -> Call("coll", "insertOne", firstArgs(list, 1))
      [] method = <<"i","n","s","e","r","t","M","a","n","y">> -> Call("coll", "insertMany", firstArgs(list, 1))
      [] method = <<"u","p","d","a","t","e","O","n","e">> -> Call("coll", "updateOne", firstArgs(list, 3))
      [] method = <<"u","p","d","a","t","e","M","a","n","y">> -> Call("coll", "updateMany", firstArgs(list, 3))
      [] method = <<"r","e","p","l","a","c","e","O","n","e">> -> Call("coll", "replaceOne", firstArgs(list, 3))
      [] method = <<"d","e","l","e","t","e","O","n","e">> -> Call("coll", "deleteOne", firstArgs(list, 1))
      [] method = <<"d","e","l","e","t","e","M","a","n","y">> -> Call("coll", "deleteMany", firstArgs(list, 1))
      [] method = <<"d","r","o","p">> -> Call("coll", "drop", <<>>)
      [] method = <<"c","r","e","a","t","e","I","n","d","e","x">> -> Call("coll", "createIndex", firstArgs(list, 2))
      [] method = <<"d","r","o","p","I","n","d","e","x">> -> Call("coll", "dropIndex", firstArgs(list, 1))
      [] method = <<"d","r","o","p","I","n","d","e","x","e","s">> -> Call("coll", "dropIndexes", <<>>)
      [] OTHER -> Call("coll", "", <<>>)

\* the switch statement, after db.collection(name) was obtained
switchMethod(opened, call, driverOk, manager) ==
    IF call.op = "" THEN Outcome(opened, "Unsupported method", Null, manager)
    ELSE settled(opened \o <<call>>, driverOk, manager)

\* the guard of aggregate under readonly: args[0] || [], on which
\* hasWriteStages calls some(); "" when the guard lets the call through
aggregateGuard(pipeline) ==
    IF pipeline.t # "arr" THEN "TypeError"
    ELSE IF hasWriteStages(pipeline.kids) THEN "not allowed in readonly mode"
    ELSE ""

\* Mutation of guardError: aggregate is not looked into
guardErrorNone(p, ro) == ""

guardError(p, ro) ==
    IF p.method = <<"a","g","g","r","e","g","a","t","e">> /\ ro
    THEN aggregateGuard(IF truthy(argAt(p.args, 1)) THEN argAt(p.args, 1) ELSE Arr(<<>>))
    ELSE ""

\* executeOperation from const db = mongoClient.getDb() on
collectionOperation(p, ro, manager, driverOk, opened) ==
    IF getDbError(manager) # "" THEN Outcome(<<GetDb>>, getDbError(manager), Null, manager)
    ELSE IF guardError(p, ro) # "" THEN Outcome(opened, guardError(p, ro), Null, manager)
    ELSE switchMethod(opened, collectionCall(p.method, p.args), driverOk, manager)

\* Mutation of executeOperation: the unknown type is not refused
executeOperationNoUnknown(p, ro, manager, driverOk) ==
    IF p.type = "admin" THEN executeAdminOperation(p.method, p.args, manager, driverOk)
    ELSE IF ~p.hasCollection \/ p.collection = <<>> \/ ~p.hasMethod \/ p.method = <<>>
    THEN Outcome(<<>>, "Invalid query", Null, manager)
    ELSE collectionOperation(p, ro, manager, driverOk,
                             <<GetDb, Call("db", "collection", <<Str(p.collection)>>)>>)

\* executeOperation
executeOperation(p, ro, manager, driverOk) ==
    IF p.type = "admin" THEN executeAdminOperation(p.method, p.args, manager, driverOk)
    ELSE IF p.type = "unknown" THEN Outcome(<<>>, "Unknown query format", Null, manager)
    ELSE IF ~p.hasCollection \/ p.collection = <<>> \/ ~p.hasMethod \/ p.method = <<>>
    THEN Outcome(<<>>, "Invalid query", Null, manager)
    ELSE collectionOperation(p, ro, manager, driverOk,
                             <<GetDb, Call("db", "collection", <<Str(p.collection)>>)>>)

\* the ExecutionResult of the try block of executeQuery
executionResult(out) ==
    [success |-> ~out.threw, error |-> out.error, calls |-> out.calls, mgr |-> out.mgr]

\* executeQuery after parseQuery
executeParsed(p, ro, manager, driverOk) ==
    IF ro /\ ~isReadonlyOperation(p)
    THEN [success |-> FALSE, error |-> "not allowed in readonly mode",
          calls |-> <<>>, mgr |-> manager]
    ELSE executionResult(executeOperation(p, ro, manager, driverOk))

\* executeQuery: the ExecutionResult, the calls made and the manager afterwards
executeQuery(query, ro, manager, driverOk) ==
    executeParsed(parseQuery(query), ro, manager, driverOk)
----------------------------------------------------------------------------
(* Bounds and input sets *)

\* longest string content of SpecImmunity, in tokens
MaxContent == 2

\* longest argument text of SpecArgs, in tokens
MaxTokens == 3

\* longest base text of SpecComma, in tokens
MaxBase == 4

\* most trailing commas added to one text
MaxCommas == 2

\* most blanks after an added comma; one more is the most between two words
MaxBlanks == 1

\* the leading letters of a word that are written in either case
MaxCased == 2

\* longest pipeline of SpecClassify, in stages
MaxStages == 2

\* all sequences over set of length at most n
SeqsUpTo(set, n) == UNION {[1..k -> set] : k \in 0..n}

otherQuote(q) == IF q = "\"" THEN "'" ELSE "\""

\* the pieces a string content is made of: structural characters and
\* constructor-call-shaped text, none holding the string's own quote
ContentTokens(q) ==
    { <<",","}">>, <<","," ","]">>, <<"{","a",":"," ","1",",">>, <<"[">>, <<":">>, <<"O","b","j","e","c","t","I","d","(","1",")">>, <<"N","u","m","b","e","r","L","o","n","g","(","5",")">>, <<"n","e","w"," ">>,
      <<"D","a","t","e","(">> \o <<otherQuote(q)>> \o <<"x">> \o <<otherQuote(q)>> \o <<")">> }

\* the places a string literal is written at: the text before and after it
Contexts ==
    { [kind |-> "sole",    pre |-> <<>>,              post |-> <<>>],
      [kind |-> "value",   pre |-> <<"{","a",":"," ">>,           post |-> <<"}">>],
      [kind |-> "element", pre |-> <<"[","1",","," ">>,           post |-> <<",","]">>],
      [kind |-> "key",     pre |-> <<"{">>,              post |-> <<":"," ","1","}">>],
      [kind |-> "second",  pre |-> <<"N","u","m","b","e","r","L","o","n","g","(","5",")",","," ">>, post |-> <<","," ","{","b",":"," ","2",",","}">>],
      [kind |-> "nested",  pre |-> <<"{","a",":"," ","[","{","b",":"," ">>,      post |-> <<" ",",","}","]","}">>] }

\* what the argument text of a context materializes to when the literal is v
expected(kind, v) ==
    CASE kind = "sole"    -> <<v>>
      [] kind = "value"   -> <<Obj(<<<<"a">>>>, <<v>>)>>
      [] kind = "element" -> <<Arr(<<Num(<<"1">>), v>>)>>
      [] kind = "key"     -> <<Obj(<<v.s>>, <<Num(<<"1">>)>>)>>
      [] kind = "second"  -> <<mkVal("long", <<"5">>, <<>>, <<>>), v, Obj(<<<<"b">>>>, <<Num(<<"2">>)>>)>>
      [] OTHER            -> <<Obj(<<<<"a">>>>, <<Arr(<<Obj(<<<<"b">>>>, <<v>>)>>)>>)>>

NoMark == [kind |-> "", from |-> 0, to |-> 0, content |-> <<>>]
NoArgs == [raised |-> FALSE, list |-> <<>>]
NoBase == [ok |-> FALSE, list |-> <<>>]

\* the argument text runs the whole pipeline of parseArguments without a throw
materializes(argsStr) ==
    LET json == JSONparse(<<"[">> \o convertToJson(trim(argsStr)) \o <<"]">>)
    IN  trim(argsStr) # <<>> /\ json.ok /\ deserializeEach(json.val.kids).ok

\* the variables the translator specifications leave alone
idleRest == /\ parsed = UnknownQuery /\ stages = <<>> /\ verdict = FALSE
            /\ readonly = FALSE /\ mgr = NewManager /\ calls = <<>>
            /\ result = [success |-> FALSE, error |-> ""]

----------------------------------------------------------------------------
(* Specification SpecImmunity: one string literal in an argument text *)

InitImmunity ==
    /\ pc = "start"
    /\ \E c \in Contexts, q \in QuoteChars :
         \E toks \in SeqsUpTo(ContentTokens(q), MaxContent) :
            LET content == concatAll(toks)
            IN  /\ input = c.pre \o <<q>> \o content \o <<q>> \o c.post
                /\ mark = [kind |-> c.kind, from |-> Len(c.pre) + 1,
                           to |-> Len(c.pre) + Len(content) + 2, content |-> content]
    /\ args = NoArgs /\ base = NoBase
    /\ idleRest

\* parseArguments(input)
Materialize ==
    /\ pc = "start"
    /\ args' = parseArguments(input)
    /\ pc' = "done"
    /\ UNCHANGED <<input, mark, base, parsed, stages, verdict, readonly, mgr, calls, result>>

SpecImmunity == InitImmunity /\ [][Materialize]_vars

\* C1: a quoted string literal is scanned as one string step from its opening
\* to its closing quote, no other step of the scanner starts or ends inside it,
\* and the argument list holds exactly the string's content at its place.
StringContentImmunity ==
    pc = "done" =>
        LET steps == convertSteps(trim(input), 1)
        IN  /\ \E k \in 1..Len(steps) :
                  /\ steps[k].from = mark.from /\ steps[k].next = mark.to + 1
                  /\ steps[k].branch \in {"double", "single"}
            /\ \A k \in 1..Len(steps) :
                  steps[k].from # mark.from =>
                      \/ steps[k].next <= mark.from
                      \/ steps[k].from > mark.to
            /\ args.list = expected(mark.kind, Str(mark.content))

\* a literal holding a comma, a closing brace and the text of a constructor
\* call has been materialized as the value of a key
ImmunityWitness ==
    /\ pc = "done"
    /\ mark.kind = "value"
    /\ mark.content = <<",","}","O","b","j","e","c","t","I","d","(","1",")">>
    /\ args.list = <<Obj(<<<<"a">>>>, <<Str(<<",","}","O","b","j","e","c","t","I","d","(","1",")">>)>>)>>

----------------------------------------------------------------------------
(* Specification SpecArgs: parseArguments on any text *)

\* the pieces of an argument text, well formed or not
ArgTokens ==
    { <<" ">>, <<"{","a",":"," ","1",",">>, <<"}">>, <<"[","1",",">>, <<"]">>, <<"\"","x","\"">>, <<"'">>, <<"O","b","j","e","c","t","I","d","(","\"","z","z","\"",")">>, <<"2">> }

InitArgs ==
    /\ pc = "start"
    /\ \E toks \in SeqsUpTo(ArgTokens, MaxTokens) : input = concatAll(toks)
    /\ mark = NoMark /\ args = NoArgs /\ base = NoBase
    /\ idleRest

SpecArgs == InitArgs /\ [][Materialize]_vars

\* C3: parseArguments never raises; it returns the empty list for an empty or
\* blank text, and otherwise the materialized values of the whole text or the
\* trimmed text as the only element.
FallbackGuarantee ==
    pc = "done" =>
        /\ ~args.raised
        /\ (trim(input) = <<>> => args.list = <<>>)
        /\ (trim(input) # <<>> =>
               IF materializes(input)
               THEN /\ Len(args.list) >= 1
                    /\ args.list = deserializeEach(
                           JSONparse(<<"[">> \o convertToJson(trim(input)) \o <<"]">>).val.kids).vals
               ELSE args.list = <<Str(trim(input))>>)

\* a malformed text has fallen back to its trimmed self
FallbackWitness ==
    /\ pc = "done"
    /\ input = <<" ","{","a",":"," ","1",",","]">>
    /\ args.list = <<Str(<<"{","a",":"," ","1",",","]">>)>>


----------------------------------------------------------------------------
(* Specification SpecComma: trailing commas added to a text that materializes *)

\* the pieces of a base text
CommaTokens ==
    { <<"[","1">>, <<"[">>, <<"]">>, <<",">>, <<"{","a",":"," ">>, <<"}">>, <<"\"","]","\"">> }

\* the closing braces and brackets of text that are outside every string:
\* those the scanner copies as they are
structuralClosers(text) ==
    LET steps == convertSteps(text, 1)
    IN  { p \in 1..Len(text) :
            /\ text[p] \in {"}", "]"}
            /\ \E k \in 1..Len(steps) : steps[k].from = p /\ steps[k].branch = "copy" }

\* text with piece put in before position p
insertAt(text, p, piece) == slice(text, 1, p - 1) \o piece \o slice(text, p, Len(text))

\* the character before position p, whitespace aside, is a comma
precededByComma(text, p) ==
    \E j \in 1..(p - 1) :
        /\ text[j] = ","
        /\ \A h \in (j + 1)..(p - 1) : text[h] \in JsWhitespace

blanks(k) == [j \in 1..k |-> " "]

InitComma ==
    /\ pc = "start"
    /\ \E toks \in SeqsUpTo(CommaTokens, MaxBase) :
          /\ input = concatAll(toks)
          /\ trim(input) = input
    /\ mark = [kind |-> "comma", added |-> 0, doubled |-> FALSE]
    /\ args = NoArgs /\ base = NoBase
    /\ idleRest

\* a comma and k blanks are written before the closing character at p of a
\* text that materialized; base keeps the values of the text as it first was
AddTrailingComma(p, k) ==
    /\ pc = "done"
    /\ mark.added < MaxCommas
    /\ materializes(input)
    /\ p \in structuralClosers(input)
    /\ input' = insertAt(input, p, <<",">> \o blanks(k))
    /\ base' = IF mark.added = 0 THEN [ok |-> TRUE, list |-> args.list] ELSE base
    /\ mark' = [mark EXCEPT !.added = @ + 1,
                            !.doubled = @ \/ precededByComma(input, p)]
    /\ args' = NoArgs
    /\ pc' = "start"
    /\ UNCHANGED <<parsed, stages, verdict, readonly, mgr, calls, result>>

NextComma ==
    \/ Materialize
    \/ \E p \in 1..Len(input), k \in 0..MaxBlanks : AddTrailingComma(p, k)

SpecComma == InitComma /\ [][NextComma]_vars

\* the scanner drops a comma exactly when the next character that is not
\* whitespace closes a brace or bracket, and leaves its cursor on that character
commasDroppedBeforeClosers(text) ==
    LET steps == convertSteps(text, 1)
    IN  \A k \in 1..Len(steps) :
            LET peek == skipWhile(text, steps[k].from + 1, JsWhitespace)
                closes == peek <= Len(text) /\ text[peek] \in {"}", "]"}
            IN  /\ steps[k].branch = "trailing" =>
                    closes /\ steps[k].next = peek /\ steps[k].text = <<>>
                /\ steps[k].branch = "comma" => ~closes

\* C10: a trailing comma, with or without blanks after it, added before a
\* closing brace or bracket that no comma precedes already, at any depth and
\* at several places, leaves the materialized values as they were; a comma is
\* dropped only when the next character that is not whitespace closes a brace
\* or bracket, and that character is not consumed.
TrailingCommaIdempotence ==
    pc = "done" =>
        /\ commasDroppedBeforeClosers(input)
        /\ (mark.added > 0 /\ ~mark.doubled => args.list = base.list)

\* C10 as stated: a trailing comma added before any closing brace or bracket
\* of a text that materializes leaves the materialized values as they were.
TrailingCommaAnywhere ==
    pc = "done" /\ mark.added > 0 => args.list = base.list

\* commas were added at two depths, one with a blank after it, and dropped
TrailingCommaWitness ==
    /\ pc = "done"
    /\ mark.added = 2 /\ ~mark.doubled
    /\ input = <<"{","a",":"," ","[","1",","," ","]",",","}">>
    /\ args.list = <<Obj(<<<<"a">>>>, <<Arr(<<Num(<<"1">>)>>)>>)>>
    /\ base.list = args.list

----------------------------------------------------------------------------
(* Specification SpecQuery: parseQuery, then isReadonlyOperation *)

toUpperChar(c) ==
    IF c \in LowerLetters THEN CHOOSE u \in UpperLetters : toLowerChar(u) = c ELSE c

\* word with any of its first MaxCased letters in upper case
CaseVariants(word) ==
    { [i \in 1..Len(word) |-> IF i \in up THEN toUpperChar(word[i]) ELSE word[i]] :
        up \in SUBSET (1..(IF MaxCased < Len(word) THEN MaxCased ELSE Len(word))) }

\* the whitespace written between two words: one to MaxBlanks + 1 blanks or tabs
Gaps == SeqsUpTo({" ", "\t"}, MaxBlanks + 1) \ {<<>>}

\* whitespace around a query
Margins == {<<>>, <<" ">>}

ShowTargets == { <<"d","b","s">>, <<"d","a","t","a","b","a","s","e","s">>, <<"c","o","l","l","e","c","t","i","o","n","s">>, <<"t","a","b","l","e","s">>, <<"u","s","e","r","s">> }

ShowCases ==
    { [text |-> lead \o show \o gap \o target \o trail,
       mark |-> [kind |-> "show", gap |-> gap, target |-> toLowerCase(target),
                 collection |-> <<>>, method |-> <<>>]] :
        lead \in Margins, trail \in Margins, show \in CaseVariants(<<"s","h","o","w">>), gap \in Gaps,
        target \in UNION {CaseVariants(t) : t \in ShowTargets} }

UseNames == { <<"m","y","d","b">>, <<"m","y","-","d","b">>, <<"_">> }

UseCases ==
    { [text |-> use \o gap \o name,
       mark |-> [kind |-> "use", gap |-> gap, target |-> name,
                 collection |-> <<>>, method |-> <<>>]] :
        use \in CaseVariants(<<"u","s","e">>), gap \in Gaps, name \in UseNames }

\* method names of neither table
OtherMethods == { <<"F","i","n","d">>, <<"I","N","S","E","R","T">>, <<"i","n","s","e","r","t","o","n","e">>, <<"b","u","l","k","W","r","i","t","e">> }

CollectionNames == { <<"u","s","e","r","s">>, <<"s","y","s","t","e","m",".","u","s","e","r","s">>, <<"u","s","e","r","_","l","o","g","s","2">>, <<"a",".","b",".","c">> }

ArgTexts == { <<>>, <<"{","a",":"," ","1","}",","," ","{","b",":"," ","2",",","}">>, <<"{","a",":"," ","(","1">>, <<" ",")"," ">> }

DbCases ==
    { [text |-> lead \o <<"d","b",".">> \o coll \o <<".">> \o method \o <<"(">> \o argText \o <<")">> \o trail,
       mark |-> [kind |-> "db", gap |-> <<>>, target |-> argText,
                 collection |-> coll, method |-> method]] :
        lead \in Margins, trail \in Margins, coll \in CollectionNames,
        method \in READONLY_METHODS \cup WRITE_METHODS \cup OtherMethods,
        argText \in ArgTexts }

\* the pieces of any other text
QueryTokens ==
    { <<"d","b",".">>, <<".">>, <<"(">>, <<")">>, <<" ">>, <<"s","h","o","w">>, <<"u","s","e">>,
      <<"s","t","a","t","s","(",")">>, <<"d","r","o","p","D","a","t","a","b","a","s","e","(",")">>, <<"g","e","t","C","o","l","l","e","c","t","i","o","n","N","a","m","e","s","(",")">>, <<"f","i","n","d">> }

FreeCases ==
    { [text |-> concatAll(toks),
       mark |-> [kind |-> "free", gap |-> <<>>, target |-> <<>>,
                 collection |-> <<>>, method |-> <<>>]] :
        toks \in SeqsUpTo(QueryTokens, MaxTokens) }

InitQuery ==
    /\ pc = "start"
    /\ \E c \in ShowCases \cup UseCases \cup DbCases \cup FreeCases :
          input = c.text /\ mark = c.mark
    /\ parsed = UnknownQuery /\ verdict = FALSE
    /\ args = NoArgs /\ base = NoBase /\ stages = <<>>
    /\ readonly = FALSE /\ mgr = NewManager /\ calls = <<>>
    /\ result = [success |-> FALSE, error |-> ""]

\* parseQuery(input)
ParseQuery ==
    /\ pc = "start"
    /\ parsed' = parseQuery(input)
    /\ pc' = "parsed"
    /\ UNCHANGED <<input, mark, args, base, stages, verdict, readonly, mgr, calls, result>>

\* isReadonlyOperation(parsed)
CheckReadonly ==
    /\ pc = "parsed"
    /\ verdict' = isReadonlyOperation(parsed)
    /\ pc' = "done"
    /\ UNCHANGED <<input, mark, args, base, parsed, stages, readonly, mgr, calls, result>>

NextQuery == ParseQuery \/ CheckReadonly

SpecQuery == InitQuery /\ [][NextQuery]_vars

\* the three top-level shapes of a trimmed text: show and a target, use and a
\* name, and db, a dotted path, and a parenthesized argument text
showShape(t) ==
    startsWithAt(toLowerCase(t), 1, <<"s","h","o","w">>) /\ Len(t) > 4 /\ t[5] \in JsWhitespace

useShape(t) ==
    startsWithAt(toLowerCase(t), 1, <<"u","s","e">>) /\ Len(t) > 3 /\ t[4] \in JsWhitespace

dbShape(t) ==
    /\ startsWithAt(t, 1, <<"d","b",".">>)
    /\ t[Len(t)] = ")"
    /\ \E p \in 5..(Len(t) - 1) :
          /\ t[p] = "("
          /\ \A j \in 4..(p - 1) : t[j] \in WordChars \cup {"."}

\* C4: parseQuery returns a ParsedQuery for every text and raises for none;
\* a trimmed text of none of the three top-level shapes gives type unknown
\* with no method, no collection and no arguments.
ParseQueryTotal ==
    pc \in {"parsed", "done"} =>
        /\ ~parsed.raised
        /\ parsed.type \in {"read", "write", "admin", "unknown"}
        /\ (~showShape(trim(input)) /\ ~useShape(trim(input)) /\ ~dbShape(trim(input)) =>
               /\ parsed.type = "unknown"
               /\ ~parsed.hasMethod /\ ~parsed.hasCollection
               /\ parsed.args = <<>>)

\* a text that begins like a db query but has no argument list is unknown
ParseQueryWitness ==
    /\ pc = "parsed"
    /\ input = <<"d","b",".","f","i","n","d">>
    /\ parsed.type = "unknown" /\ ~parsed.hasMethod /\ ~parsed.hasCollection
    /\ parsed.args = <<>>

\* C5: for db.<collection>.<method>(<args>), with a collection of word
\* characters and dots, the type is read exactly for the methods of
\* READONLY_METHODS, write exactly for those of WRITE_METHODS and unknown for
\* any other, in the case written; collection and method are returned.
MethodClassification ==
    pc \in {"parsed", "done"} /\ mark.kind = "db" =>
        /\ (parsed.type = "read" <=> mark.method \in READONLY_METHODS)
        /\ (parsed.type = "write" <=> mark.method \in WRITE_METHODS)
        /\ (parsed.type = "unknown" <=>
               mark.method \notin READONLY_METHODS \cup WRITE_METHODS)
        /\ (mark.method \in {<<"F","i","n","d">>, <<"I","N","S","E","R","T">>} => parsed.type = "unknown")
        /\ parsed.hasCollection /\ parsed.collection = mark.collection
        /\ parsed.hasMethod /\ parsed.method = mark.method

\* a method in another case than the table's is unknown and is returned
MethodClassificationWitness ==
    /\ pc = "parsed"
    /\ input = <<"d","b",".","s","y","s","t","e","m",".","u","s","e","r","s",".","F","i","n","d","(","{","a",":"," ","1","}",","," ","{","b",":"," ","2",",","}",")">>
    /\ parsed.type = "unknown"
    /\ parsed.collection = <<"s","y","s","t","e","m",".","u","s","e","r","s">> /\ parsed.method = <<"F","i","n","d">>
    /\ Len(parsed.args) = 2

\* the parts of C9 that hold for every input: the write names classify as
\* write and are not readonly-safe, and the tables are disjoint
writeTableComplete ==
    /\ READONLY_METHODS \cap WRITE_METHODS = {}
    /\ WRITE_METHODS \cap readonlyAdminMethods = {}
    /\ (pc = "done" /\ mark.kind = "db" /\ mark.method \in WRITE_METHODS =>
           parsed.type = "write" /\ ~verdict)

\* C9: every name of the write table, used as db.<coll>.<name>(...), is
\* write and not readonly-safe; the read and write tables are disjoint and no
\* write name is in the readonly-admin subset; show dbs and show collections,
\* in any letter case and with any whitespace that begins with a space
\* character between the words, are admin and readonly-safe.
ClassificationCompleteness ==
    /\ writeTableComplete
    /\ (pc = "done" /\ mark.kind = "show" /\ mark.target \in {<<"d","b","s">>, <<"c","o","l","l","e","c","t","i","o","n","s">>}
           /\ Head(mark.gap) = " " =>
           parsed.type = "admin" /\ verdict)

\* C9 as stated: show dbs and show collections are admin and readonly-safe
\* with any amount of whitespace between the words.
ShowAnyWhitespace ==
    pc = "done" /\ mark.kind = "show" /\ mark.target \in {<<"d","b","s">>, <<"c","o","l","l","e","c","t","i","o","n","s">>} =>
        parsed.type = "admin" /\ verdict

\* show collections in mixed case, two blanks between the words
ClassificationWitness ==
    /\ pc = "done"
    /\ input = <<"S","H","o","w"," "," ","C","O","l","l","e","c","t","i","o","n","s">>
    /\ parsed.type = "admin" /\ parsed.method = <<"l","i","s","t","C","o","l","l","e","c","t","i","o","n","s">>
    /\ verdict

----------------------------------------------------------------------------
(* Specification SpecClassify: isReadonlyOperation and hasWriteStages on any
   ParsedQuery and any pipeline *)

ClassifiedMethods ==
    { <<"l","i","s","t","D","a","t","a","b","a","s","e","s">>, <<"l","i","s","t","C","o","l","l","e","c","t","i","o","n","s">>, <<"u","s","e">>, <<"d","b","S","t","a","t","s">>, <<"d","r","o","p","D","a","t","a","b","a","s","e">>,
      <<"f","i","n","d">>, <<"i","n","s","e","r","t","O","n","e">>, <<"U","s","e">>, <<>> }

ParsedQueries ==
    { mkParsed(type, hasCollection, IF hasCollection THEN <<"u","s","e","r","s">> ELSE <<>>,
               hasMethod, IF hasMethod THEN method ELSE <<>>, <<>>) :
        type \in {"read", "write", "admin", "unknown"}, hasCollection \in BOOLEAN,
        hasMethod \in BOOLEAN, method \in ClassifiedMethods }

StageValues ==
    { Null, Undefined, Num(<<"1">>), Str(<<"$","o","u","t">>), Arr(<<Str(<<"$","o","u","t">>)>>),
      mkVal("date", <<"$","o","u","t">>, <<>>, <<>>),
      Obj(<<<<"$","m","a","t","c","h">>>>, <<Obj(<<<<"$","o","u","t">>>>, <<Num(<<"1">>)>>)>>),
      Obj(<<<<"$","o","u","t">>>>, <<Str(<<"x">>)>>),
      Obj(<<<<"$","m","e","r","g","e">>>>, <<Null>>),
      Obj(<<<<"$","m","a","t","c","h">>, <<"$","m","e","r","g","e">>>>, <<Num(<<"1">>), Str(<<"x">>)>>) }

InitClassify ==
    /\ \/ /\ pc = "parsed"
          /\ parsed \in ParsedQueries
          /\ stages = <<>>
       \/ /\ pc = "staged"
          /\ parsed = UnknownQuery
          /\ stages \in SeqsUpTo(StageValues, MaxStages)
    /\ input = <<>> /\ mark = NoMark /\ verdict = FALSE
    /\ args = NoArgs /\ base = NoBase
    /\ readonly = FALSE /\ mgr = NewManager /\ calls = <<>>
    /\ result = [success |-> FALSE, error |-> ""]

\* hasWriteStages(stages)
CheckStages ==
    /\ pc = "staged"
    /\ verdict' = hasWriteStages(stages)
    /\ pc' = "scanned"
    /\ UNCHANGED <<input, mark, args, base, parsed, stages, readonly, mgr, calls, result>>

NextClassify == CheckReadonly \/ CheckStages

SpecClassify == InitClassify /\ [][NextClassify]_vars

\* C6: isReadonlyOperation is true exactly for type read and for type admin
\* with method listDatabases, listCollections, use or dbStats; it is false for
\* write and unknown, for admin dropDatabase and for admin without a method.
ReadonlyOperationIff ==
    pc = "done" =>
        /\ verdict <=>
              \/ parsed.type = "read"
              \/ /\ parsed.type = "admin"
                 /\ parsed.hasMethod
                 /\ parsed.method \in {<<"l","i","s","t","D","a","t","a","b","a","s","e","s">>, <<"l","i","s","t","C","o","l","l","e","c","t","i","o","n","s">>, <<"u","s","e">>, <<"d","b","S","t","a","t","s">>}
        /\ (parsed.type \in {"write", "unknown"} => ~verdict)
        /\ (parsed.type = "admin" /\ parsed.method = <<"d","r","o","p","D","a","t","a","b","a","s","e">> => ~verdict)
        /\ (parsed.type = "admin" /\ (~parsed.hasMethod \/ parsed.method = <<>>) => ~verdict)

\* the drop of a database was classified
ReadonlyOperationWitness ==
    /\ pc = "done"
    /\ parsed.type = "admin" /\ parsed.hasMethod /\ parsed.method = <<"d","r","o","p","D","a","t","a","b","a","s","e">>
    /\ ~verdict

\* C7: hasWriteStages is true exactly when some stage, at any index, is an
\* object other than null that has the key $out or $merge; null, undefined and
\* stages that are no objects count for nothing, and so does the empty pipeline.
WriteStagesIff ==
    pc = "scanned" =>
        /\ verdict <=>
              \E k \in 1..Len(stages) :
                  /\ stages[k].t = "obj"
                  /\ \E j \in 1..Len(stages[k].keys) :
                        stages[k].keys[j] \in {<<"$","o","u","t">>, <<"$","m","e","r","g","e">>}
        /\ (stages = <<>> => ~verdict)
        /\ ((\A k \in 1..Len(stages) : stages[k].t \in {"null", "undef", "num", "str"})
               => ~verdict)

\* a write stage after a null stage was found
WriteStagesWitness ==
    /\ pc = "scanned"
    /\ stages = <<Null, Obj(<<<<"$","m","a","t","c","h">>, <<"$","m","e","r","g","e">>>>, <<Num(<<"1">>), Str(<<"x">>)>>)>>
    /\ verdict

----------------------------------------------------------------------------
(* Specification SpecExec: queries run against the client manager *)

ExecMethods == READONLY_METHODS \cup WRITE_METHODS \cup {<<"F","i","n","d">>, <<"b","u","l","k","W","r","i","t","e">>}

PipelineTexts ==
    { <<>>, <<"[","{","$","m","a","t","c","h",":"," ","{","a",":"," ","1","}","}","]">>, <<"[","{","$","o","u","t",":"," ","\"","x","\"","}","]">>,
      <<"[","{","$","m","a","t","c","h",":"," ","{","a",":"," ","1","}","}",","," ","{","$","m","e","r","g","e",":"," ","\"","x","\"","}",",","]">>, <<"[","n","u","l","l",","," ","1",","," ","{","$","o","u","t",":"," ","\"","x","\"","}","]">>,
      <<"{","$","o","u","t",":"," ","\"","x","\"","}">>, <<"\"","$","o","u","t","\"">>, <<"n","u","l","l",","," ","[","{","$","o","u","t",":"," ","\"","x","\"","}","]">> }

ExecQueries ==
    { <<"d","b",".","u","s","e","r","s",".">> \o method \o <<"(","{","a",":"," ","1","}",","," ","{","b",":"," ","2","}",")">> : method \in ExecMethods }
    \cup { <<"d","b",".","u","s","e","r","s",".","a","g","g","r","e","g","a","t","e","(">> \o text \o <<")">> : text \in PipelineTexts }
    \cup { <<"s","h","o","w"," ","d","b","s">>, <<"s","h","o","w"," ","c","o","l","l","e","c","t","i","o","n","s">>, <<"u","s","e"," ","m","y","d","b">>, <<"d","b",".","s","t","a","t","s","(",")">>,
           <<"d","b",".","d","r","o","p","D","a","t","a","b","a","s","e","(",")">>, <<"d","b",".","g","e","t","C","o","l","l","e","c","t","i","o","n","N","a","m","e","s","(",")">> }
    \cup { <<"f","o","o">>, <<"d","b",".","u","s","e","r","s">>, <<"s","h","o","w"," ","u","s","e","r","s">>, <<"d","b",".","u","s","e","r","s",".","f","i","n","d","(",")","x">>, <<>> }

Idle == [success |-> FALSE, error |-> ""]

InitExec ==
    /\ pc = "idle"
    /\ mgr = NewManager
    /\ input = <<>> /\ readonly = FALSE
    /\ parsed = UnknownQuery /\ calls = <<>> /\ result = Idle
    /\ mark = NoMark /\ args = NoArgs /\ base = NoBase
    /\ stages = <<>> /\ verdict = FALSE

\* mongoClient.connect(uri)
Connect(dbFromUri, driverOk) ==
    /\ pc = "idle"
    /\ mgr' = connect(mgr, dbFromUri, driverOk)
    /\ UNCHANGED <<pc, input, mark, args, base, parsed, stages, verdict, readonly,
                   calls, result>>

\* mongoClient.setCurrentDb(name), as main does for the -d option
SetCurrentDb(name) ==
    /\ pc = "idle"
    /\ mgr' = setCurrentDb(mgr, name)
    /\ UNCHANGED <<pc, input, mark, args, base, parsed, stages, verdict, readonly,
                   calls, result>>

\* mongoClient.close()
Close(driverOk) ==
    /\ pc = "idle"
    /\ mgr' = close(mgr, driverOk)
    /\ UNCHANGED <<pc, input, mark, args, base, parsed, stages, verdict, readonly,
                   calls, result>>

\* a caller hands a query and the readonly flag to executeQuery
Submit(query, ro) ==
    /\ pc = "idle"
    /\ input' = query /\ readonly' = ro
    /\ pc' = "running"
    /\ UNCHANGED <<mark, args, base, parsed, stages, verdict, mgr, calls, result>>

\* executeQuery(input, readonly), the driver resolving or rejecting what it
\* is asked
Execute(driverOk) ==
    /\ pc = "running"
    /\ parsed' = parseQuery(input)
    /\ \E r \in {executeQuery(input, readonly, mgr, driverOk)} :
          /\ result' = [success |-> r.success, error |-> r.error]
          /\ calls' = r.calls
          /\ mgr' = r.mgr
    /\ pc' = "returned"
    /\ UNCHANGED <<input, mark, args, base, stages, verdict, readonly>>

\* the caller has taken the result
Return ==
    /\ pc = "returned"
    /\ input' = <<>> /\ readonly' = FALSE
    /\ parsed' = UnknownQuery /\ calls' = <<>> /\ result' = Idle
    /\ pc' = "idle"
    /\ UNCHANGED <<mark, args, base, stages, verdict, mgr>>

NextExec ==
    \/ \E dbFromUri \in {Null, Str(<<"a","p","p">>)}, driverOk \in BOOLEAN : Connect(dbFromUri, driverOk)
    \/ SetCurrentDb(Str(<<"a","p","p">>))
    \/ \E driverOk \in BOOLEAN : Close(driverOk)
    \/ \E query \in ExecQueries, ro \in BOOLEAN : Submit(query, ro)
    \/ \E driverOk \in BOOLEAN : Execute(driverOk)
    \/ Return

SpecExec == InitExec /\ [][NextExec]_vars

\* the driver calls that write
WriteOps ==
    { "insertOne", "insertMany", "updateOne", "updateMany", "replaceOne", "deleteOne",
      "deleteMany", "drop", "createIndex", "dropIndex", "dropIndexes" }

\* a pipeline value with a $out or $merge stage at some position
holdsWriteStage(v) ==
    /\ v.t = "arr"
    /\ \E k \in 1..Len(v.kids) :
          /\ v.kids[k].t = "obj"
          /\ \E j \in 1..Len(v.kids[k].keys) : v.kids[k].keys[j] \in {<<"$","o","u","t">>, <<"$","m","e","r","g","e">>}

IsWriteCall(c) ==
    \/ c.target = "coll" /\ c.op \in WriteOps
    \/ c.target = "db" /\ c.op = "dropDatabase"
    \/ c.target = "coll" /\ c.op = "aggregate" /\ Len(c.a) >= 1 /\ holdsWriteStage(c.a[1])

\* the query asks for one of the writes
asksWrite(p) ==
    \/ p.type = "write"
    \/ p.type = "admin" /\ p.method = <<"d","r","o","p","D","a","t","a","b","a","s","e">>
    \/ p.method = <<"a","g","g","r","e","g","a","t","e">> /\ Len(p.args) >= 1 /\ holdsWriteStage(p.args[1])

\* C2: executeQuery with readonly true makes no write call of the driver,
\* neither one of the write methods, nor db.dropDatabase, nor an aggregate
\* whose pipeline holds a $out or $merge stage at any position; a query that
\* asks for one of them gets success false, refused before the call is made.
ReadonlySafety ==
    pc = "returned" /\ readonly =>
        /\ \A k \in 1..Len(calls) : ~IsWriteCall(calls[k])
        /\ (asksWrite(parsed) =>
               /\ ~result.success
               /\ \A k \in 1..Len(calls) : calls[k].target \notin {"coll", "admin"})

\* an aggregate ending in $merge was refused on an open connection, after the
\* collection was obtained and before the driver was asked
ReadonlySafetyWitness ==
    /\ pc = "returned" /\ readonly
    /\ input = <<"d","b",".","u","s","e","r","s",".","a","g","g","r","e","g","a","t","e","(","[","{","$","m","a","t","c","h",":"," ","{","a",":"," ","1","}","}",","," ","{","$","m","e","r","g","e",":"," ","\"","x","\"","}",",","]",")">>
    /\ mgr = [client |-> "connected", currentDbName |-> Str(<<"a","p","p">>)]
    /\ ~result.success /\ result.error = "not allowed in readonly mode"
    /\ calls = <<GetDb, Call("db", "collection", <<Str(<<"u","s","e","r","s">>)>>)>>

\* C8: a query that parseQuery classifies as unknown is never dispatched:
\* with readonly true or false, executeQuery returns success false and calls
\* nothing of the database client, also when a method name was retained.
UnknownNeverDispatched ==
    pc = "returned" /\ parsed.type = "unknown" =>
        ~result.success /\ calls = <<>>

\* a method in the wrong case was refused with writes allowed and a database
\* selected
UnknownWitness ==
    /\ pc = "returned" /\ ~readonly
    /\ input = <<"d","b",".","u","s","e","r","s",".","F","i","n","d","(","{","a",":"," ","1","}",","," ","{","b",":"," ","2","}",")">>
    /\ parsed.type = "unknown" /\ parsed.hasMethod /\ parsed.method = <<"F","i","n","d">>
    /\ mgr = [client |-> "connected", currentDbName |-> Str(<<"a","p","p">>)]
    /\ ~result.success /\ calls = <<>>

----------------------------------------------------------------------------
(* Specification SpecQuote: one string value written in both quote styles *)

\* longest string value of SpecQuote, in pieces
MaxQuoted == 2

\* the pieces a string value is made of: a letter, either quote character,
\* a backslash, structural characters and constructor-call-shaped text
QuotedPieces ==
    { <<"a">>, <<"\"">>, <<"'">>, <<"\\">>, <<","," ","}">>, <<"O","b","j","e","c","t","I","d","(","1",")">> }

\* the literal that denotes content in the quote style q of JavaScript: the
\* style's own quote character and the backslash are escaped, nothing else is
written(q, content) ==
    <<q>> \o concatAll([k \in 1..Len(content) |->
                           IF content[k] \in {q, "\\"} THEN <<"\\", content[k]>>
                           ELSE <<content[k]>>]) \o <<q>>

InitQuote ==
    /\ pc = "start"
    /\ \E c \in Contexts :
         \E toks \in SeqsUpTo(QuotedPieces, MaxQuoted) :
            LET content == concatAll(toks)
            IN  /\ input = c.pre \o written("'", content) \o c.post
                /\ mark = [kind |-> c.kind, content |-> content,
                           double |-> c.pre \o written("\"", content) \o c.post]
    /\ args = NoArgs /\ base = NoBase
    /\ idleRest

\* parseArguments of the single-quoted text (args) and of the double-quoted
\* text (base)
MaterializeBoth ==
    /\ pc = "start"
    /\ args' = parseArguments(input)
    /\ base' = [ok |-> TRUE, list |-> parseArguments(mark.double).list]
    /\ pc' = "done"
    /\ UNCHANGED <<input, mark, parsed, stages, verdict, readonly, mgr, calls, result>>

SpecQuote == InitQuote /\ [][MaterializeBoth]_vars

\* C11: an argument text whose string is written in single quotes and the
\* same text with the string written in double quotes materialize to the
\* same values, also when the string holds the quote character of the other
\* style.
QuoteStyleEquivalence ==
    pc = "done" => args.list = base.list

----------------------------------------------------------------------------
(* Specification SpecIdentifier: one identifier literal in an argument text *)

\* the hexadecimal digits the identifier texts are written with
IdentifierDigits == {"0", "9", "a", "f", "A", "F"}

\* texts of 24 hexadecimal digits: one digit twelve times, then another
HexTexts ==
    { [k \in 1..24 |-> IF k <= 12 THEN c1 ELSE c2] : c1, c2 \in IdentifierDigits }

\* the spellings of an identifier literal with argument h
IdentifierLiterals(h) ==
    { <<"O","b","j","e","c","t","I","d","(","\"">> \o h \o <<"\"",")">>,
      <<"O","b","j","e","c","t","I","d","(","'">> \o h \o <<"'",")">>,
      <<"n","e","w"," ","O","b","j","e","c","t","I","d","(","\"">> \o h \o <<"\"",")">> }

\* the places a value is written at
ValueContexts == { c \in Contexts : c.kind # "key" }

InitIdentifier ==
    /\ pc = "start"
    /\ \E c \in ValueContexts, h \in HexTexts :
         \E lit \in IdentifierLiterals(h) :
            /\ input = c.pre \o lit \o c.post
            /\ mark = [kind |-> c.kind, content |-> h]
    /\ args = NoArgs /\ base = NoBase
    /\ idleRest

SpecIdentifier == InitIdentifier /\ [][Materialize]_vars

\* C12: an identifier literal whose argument is a text of 24 hexadecimal
\* digits, in any of its three spellings and at any place of the argument
\* text, materializes to an identifier whose canonical string form is the
\* argument in lower case.
IdentifierRoundTrip ==
    pc = "done" =>
        args.list = expected(mark.kind, mkVal("oid", toLowerCase(mark.content), <<>>, <<>>))

\* C12 as stated: the canonical string form equals the argument itself.
IdentifierRoundTripExact ==
    pc = "done" =>
        args.list = expected(mark.kind, mkVal("oid", mark.content, <<>>, <<>>))

\* an identifier written with upper-case digits inside an array inside an
\* object has been materialized
IdentifierWitness ==
    /\ pc = "done"
    /\ mark.kind = "nested"
    /\ mark.content = <<"A","A","A","A","A","A","A","A","A","A","A","A","9","9","9","9","9","9","9","9","9","9","9","9">>
    /\ args.list = <<Obj(<<<<"a">>>>, <<Arr(<<Obj(<<<<"b">>>>,
                        <<mkVal("oid", <<"a","a","a","a","a","a","a","a","a","a","a","a","9","9","9","9","9","9","9","9","9","9","9","9">>, <<>>, <<>>)>>)>>)>>)>>

----------------------------------------------------------------------------
(* Specification SpecLeak: objects written with the keys of the tagged form *)

\* the keys an object of one member is written with
LeakKeys == { <<"$","o","i","d">>, <<"$","d","a","t","e">>, <<"$","n","u","m","b","e","r","L","o","n","g">>, <<"\"","$","o","i","d","\"">>, <<"a">> }

\* the values it is written with
LeakValues ==
    { <<"5">>, <<"n","u","l","l">>, <<"t","r","u","e">>, <<"\"","x","\"">>, <<"\"","7","\"">>, <<"{","b",":"," ","1","}">>, <<"[","1","]">>,
      <<"\"","0","0","0","0","0","0","0","0","0","0","0","0","0","0","0","0","0","0","0","0","0","0","0","0","\"">> }

InitLeak ==
    /\ pc = "start"
    /\ \E c \in ValueContexts, key \in LeakKeys, val \in LeakValues :
          /\ input = <<"d","b",".","x",".","f","i","n","d","(">> \o c.pre \o <<"{">> \o key \o <<":"," ">> \o val \o <<"}">>
                        \o c.post \o <<")">>
          /\ mark = [kind |-> c.kind, key |-> key, val |-> val]
    /\ parsed = UnknownQuery /\ verdict = FALSE
    /\ args = NoArgs /\ base = NoBase /\ stages = <<>>
    /\ readonly = FALSE /\ mgr = NewManager /\ calls = <<>>
    /\ result = [success |-> FALSE, error |-> ""]

SpecLeak == InitLeak /\ [][ParseQuery]_vars

\* the keys of the intermediate tagged form
TagKeys == { <<"$","o","i","d">>, <<"$","d","a","t","e">>, <<"$","n","u","m","b","e","r","L","o","n","g">> }

ValueKinds ==
    {"null", "true", "false", "num", "str", "oid", "date", "long", "arr", "obj"}

\* value, or a value below it, is an object whose only key is a tag key
RECURSIVE holdsTagged(_)
holdsTagged(value) ==
    \/ value.t = "obj" /\ Len(value.keys) = 1 /\ value.keys[1] \in TagKeys
    \/ \E k \in 1..Len(value.kids) : holdsTagged(value.kids[k])

\* every value at or below value is of one of the kinds
RECURSIVE wellKinded(_)
wellKinded(value) ==
    /\ value.t \in ValueKinds
    /\ \A k \in 1..Len(value.kids) : wellKinded(value.kids[k])

\* C13: every value reachable from the args of the ParsedQuery is null, a
\* boolean, a number, a string, an identifier, an instant, a 64-bit integer,
\* an array or a plain object, and none is an object whose only key is $oid,
\* $date or $numberLong.
NoTaggedLeak ==
    pc = "parsed" =>
        \A k \in 1..Len(parsed.args) :
            wellKinded(parsed.args[k]) /\ ~holdsTagged(parsed.args[k])

----------------------------------------------------------------------------
(* Specification SpecFailure: constructor literals with arguments that the  *)
(* typed values can or cannot represent, and malformed text                 *)

\* the constructor literals: the constructor, the text of the literal and
\* its argument
FailureLiterals ==
    { [kind |-> "oid",  arg |-> <<"0","0","0","0","0","0","0","0","0","0","0","0","0","0","0","0","0","0","0","0","0","0","0","0">>,
       text |-> <<"O","b","j","e","c","t","I","d","(","\"","0","0","0","0","0","0","0","0","0","0","0","0","0","0","0","0","0","0","0","0","0","0","0","0","\"",")">>],
      [kind |-> "oid",  arg |-> <<"z","z">>, text |-> <<"O","b","j","e","c","t","I","d","(","\"","z","z","\"",")">>],
      [kind |-> "oid",  arg |-> <<"0","0","0","0","0","0","0","0","0","0","0","0","0","0","0","0","0","0","0","0","0","0","0","g">>,
       text |-> <<"O","b","j","e","c","t","I","d","(","'","0","0","0","0","0","0","0","0","0","0","0","0","0","0","0","0","0","0","0","0","0","0","0","g","'",")">>],
      [kind |-> "oid",  arg |-> <<"0","0","0","0","0","0","0","0","0","0","0","0","0","0","0","0","0","0","0","0","0","0","0","0","0">>,
       text |-> <<"n","e","w"," ","O","b","j","e","c","t","I","d","(","\"","0","0","0","0","0","0","0","0","0","0","0","0","0","0","0","0","0","0","0","0","0","0","0","0","0","\"",")">>],
      [kind |-> "date", arg |-> <<"2","0","2","4","-","0","1","-","0","1">>, text |-> <<"I","S","O","D","a","t","e","(","\"","2","0","2","4","-","0","1","-","0","1","\"",")">>],
      [kind |-> "date", arg |-> <<"x">>, text |-> <<"D","a","t","e","(","\"","x","\"",")">>],
      [kind |-> "date", arg |-> <<"2","0","2","4","-","1","3","-","0","1">>, text |-> <<"n","e","w"," ","I","S","O","D","a","t","e","(","'","2","0","2","4","-","1","3","-","0","1","'",")">>],
      [kind |-> "long", arg |-> <<"9","2","2","3","3","7","2","0","3","6","8","5","4","7","7","5","8","0","7">>,
       text |-> <<"N","u","m","b","e","r","L","o","n","g","(","9","2","2","3","3","7","2","0","3","6","8","5","4","7","7","5","8","0","7",")">>],
      [kind |-> "long", arg |-> <<"-","9","2","2","3","3","7","2","0","3","6","8","5","4","7","7","5","8","0","8">>,
       text |-> <<"N","u","m","b","e","r","L","o","n","g","(","\"","-","9","2","2","3","3","7","2","0","3","6","8","5","4","7","7","5","8","0","8","\"",")">>],
      [kind |-> "long", arg |-> <<"9","2","2","3","3","7","2","0","3","6","8","5","4","7","7","5","8","0","8">>,
       text |-> <<"N","u","m","b","e","r","L","o","n","g","(","9","2","2","3","3","7","2","0","3","6","8","5","4","7","7","5","8","0","8",")">>],
      [kind |-> "long", arg |-> <<"-","9","2","2","3","3","7","2","0","3","6","8","5","4","7","7","5","8","0","9">>,
       text |-> <<"N","u","m","b","e","r","L","o","n","g","(","'","-","9","2","2","3","3","7","2","0","3","6","8","5","4","7","7","5","8","0","9","'",")">>],
      [kind |-> "long", arg |-> <<"9","9","9","9","9","9","9","9","9","9","9","9","9","9","9","9","9","9","9","9">>,
       text |-> <<"n","e","w"," ","N","u","m","b","e","r","L","o","n","g","(","9","9","9","9","9","9","9","9","9","9","9","9","9","9","9","9","9","9","9","9",")">>],
      [kind |-> "text", arg |-> <<>>, text |-> <<"{","a",":"," ">>],
      [kind |-> "text", arg |-> <<>>, text |-> <<"O","b","j","e","c","t","I","d","(",")">>],
      [kind |-> "text", arg |-> <<>>, text |-> <<"1">> ] }

\* blanks around the argument text
FailureMargins == { <<>>, <<" ">>, <<"\t"," ">> }

InitFailure ==
    /\ pc = "start"
    /\ \E c \in ValueContexts, lit \in FailureLiterals, m \in FailureMargins :
          /\ input = m \o c.pre \o lit.text \o c.post \o m
          /\ mark = [kind |-> c.kind, literal |-> lit.kind, arg |-> lit.arg]
    /\ args = NoArgs /\ base = NoBase
    /\ idleRest

SpecFailure == InitFailure /\ [][Materialize]_vars

\* the decimal text is a number of the signed 64-bit range
inLongRange(arg) ==
    IF Head(arg) = "-" THEN decGeq(TwoTo63, stripZeros(Tail(arg)))
    ELSE ~decGeq(stripZeros(arg), TwoTo63)

\* the typed value of the constructor can represent the argument
representable(literal, arg) ==
    CASE literal = "oid"  -> Len(arg) = 24 /\ \A k \in 1..Len(arg) : arg[k] \in HexChars
      [] literal = "date" -> newDate(arg).val # InvalidDate
      [] literal = "long" -> inLongRange(arg)
      [] OTHER            -> TRUE

\* C14: when normalization, JSON parsing or the construction of a typed value
\* fails for any part of the argument text, a constructor given an argument
\* it cannot represent included, parseArguments returns the one-element list
\* holding the trimmed text.
FailureCaughtWhole ==
    pc = "done" /\ trim(input) # <<>> =>
        (~materializes(input) \/ ~representable(mark.literal, mark.arg) =>
            args.list = <<Str(trim(input))>>)

----------------------------------------------------------------------------
(* Specification SpecDispatch: queries whose arguments fall back to the raw *)
(* text, handed to executeQuery                                             *)

DispatchMethods ==
    { <<"f","i","n","d">>, <<"f","i","n","d","O","n","e">>, <<"c","o","u","n","t","D","o","c","u","m","e","n","t","s">>, <<"a","g","g","r","e","g","a","t","e">>, <<"i","n","s","e","r","t","O","n","e">>,
      <<"u","p","d","a","t","e","O","n","e">>, <<"d","e","l","e","t","e","M","a","n","y">>, <<"d","r","o","p","I","n","d","e","x">>, <<"F","i","n","d">> }

\* argument texts: a chained call, an unfinished object, an identifier that
\* cannot be built, and one text that materializes
DispatchTexts ==
    { <<"{","}",")",".","s","o","r","t","(","{","n","a","m","e",":"," ","1","}">>, <<"{","a",":"," ">>, <<"{","_","i","d",":"," ","O","b","j","e","c","t","I","d","(","\"","z","z","\"",")","}">>, <<"{","a",":"," ","1","}">> }

DispatchQueries ==
    { <<"d","b",".","u","s","e","r","s",".">> \o method \o <<"(">> \o text \o <<")">> :
          method \in DispatchMethods, text \in DispatchTexts }

NextDispatch ==
    \/ \E dbFromUri \in {Null, Str(<<"a","p","p">>)}, driverOk \in BOOLEAN : Connect(dbFromUri, driverOk)
    \/ SetCurrentDb(Str(<<"a","p","p">>))
    \/ \E driverOk \in BOOLEAN : Close(driverOk)
    \/ \E query \in DispatchQueries, ro \in BOOLEAN : Submit(query, ro)
    \/ \E driverOk \in BOOLEAN : Execute(driverOk)
    \/ Return

SpecDispatch == InitExec /\ [][NextDispatch]_vars

\* the arguments of the query fell back to the trimmed raw text
fellBack(query, p) ==
    /\ collMethodMatch(trim(query)).matched
    /\ trim(collMethodMatch(trim(query)).argsStr) # <<>>
    /\ ~materializes(collMethodMatch(trim(query)).argsStr)
    /\ p.args = <<Str(trim(collMethodMatch(trim(query)).argsStr))>>

\* C15: when the arguments of a query fell back to the one-element list
\* holding the raw text, executeQuery returns an error result and no call
\* of the driver is given that raw text as an argument.
FallbackRejected ==
    pc = "returned" /\ fellBack(input, parsed) =>
        /\ ~result.success
        /\ \A k \in 1..Len(calls) :
              calls[k].target \in {"coll", "db", "admin"} =>
                  \A j \in 1..Len(calls[k].a) : calls[k].a[j] # parsed.args[1]

----------------------------------------------------------------------------
(* Specification SpecUse: the use command *)

\* the first token after the keyword
UseTokens == { <<"m","y","d","b">>, <<"d","b","2">>, <<"_">>, <<"m","y","-","d","b">>, <<"m","y",".","d","b">>, <<"-","x">>, <<"$","x">> }

\* what follows the first token
UseRests == { <<>>, <<" ">>, <<" ","o","t","h","e","r">>, <<" "," ","a"," ","b">> }

\* the whitespace after the keyword, a blank first
UseGaps == { <<" ">>, <<" "," ">>, <<" ","\t">> }

UseTexts ==
    { use \o gap \o name \o rest :
          use \in CaseVariants(<<"u","s","e">>), gap \in UseGaps, name \in UseTokens,
          rest \in UseRests }
    \cup { use \o gap : use \in CaseVariants(<<"u","s","e">>), gap \in UseGaps \cup {<<>>} }

InitUse ==
    /\ pc = "start"
    /\ \E text \in UseTexts, lead \in Margins : input = lead \o text
    /\ mark = NoMark
    /\ parsed = UnknownQuery /\ verdict = FALSE
    /\ args = NoArgs /\ base = NoBase /\ stages = <<>>
    /\ readonly = FALSE /\ mgr = NewManager /\ calls = <<>>
    /\ result = [success |-> FALSE, error |-> ""]

SpecUse == InitUse /\ [][ParseQuery]_vars

\* the first whitespace-delimited token after the keyword of a trimmed text
firstTokenAfterUse(t) == partAt(t, skipWhile(t, 4, JsWhitespace))

\* C16: for the input use and a text, the result is admin/use whose args is
\* the one-element list holding the first whitespace-delimited token after
\* the keyword, whatever the letter case of the keyword and whatever follows
\* the token; use with no name is unknown.
UseFirstToken ==
    pc = "parsed" =>
        IF firstTokenAfterUse(trim(input)) = <<>> THEN parsed = UnknownQuery
        ELSE parsed = AdminQuery(<<"u","s","e">>, <<Str(firstTokenAfterUse(trim(input)))>>)

----------------------------------------------------------------------------
(* The shape of a db query, read off the text *)

\* the first opening parenthesis of t, Len(t) + 1 if none
firstParen(t) == skipUntil(t, 1, {"("})

\* where the run of word characters that ends before position p begins
runStart(t, p) ==
    CHOOSE j \in 1..p :
        /\ \A k \in j..(p - 1) : t[k] \in WordChars
        /\ (j = 1 \/ t[j - 1] \notin WordChars)

\* t is db, a dotted path, a name and a parenthesized argument text
callForm(t) ==
    /\ startsWithAt(t, 1, <<"d","b",".">>)
    /\ firstParen(t) < Len(t) /\ t[Len(t)] = ")"
    /\ runStart(t, firstParen(t)) < firstParen(t)
    /\ runStart(t, firstParen(t)) > 5
    /\ t[runStart(t, firstParen(t)) - 1] = "."
    /\ \A k \in 4..(runStart(t, firstParen(t)) - 2) : t[k] \in WordChars \cup {"."}

ExactAdminForms == { <<"d","b",".","s","t","a","t","s","(",")">>, <<"d","b",".","d","r","o","p","D","a","t","a","b","a","s","e","(",")">>, <<"d","b",".","g","e","t","C","o","l","l","e","c","t","i","o","n","N","a","m","e","s","(",")">> }

\* C17: in db.<path>.<name>(<args>) the method is the identifier before the
\* first opening parenthesis and the collection is all that stands between
\* db. and that identifier, dots included; db.stats(), db.dropDatabase() and
\* db.getCollectionNames() are admin commands without a collection; a db text
\* without the parenthesized call is unknown.
DbQueryShape ==
    pc \in {"parsed", "done"} /\ startsWithAt(trim(input), 1, <<"d","b",".">>) =>
        /\ (trim(input) = <<"d","b",".","s","t","a","t","s","(",")">> => parsed = AdminQuery(<<"d","b","S","t","a","t","s">>, <<>>))
        /\ (trim(input) = <<"d","b",".","d","r","o","p","D","a","t","a","b","a","s","e","(",")">> => parsed = AdminQuery(<<"d","r","o","p","D","a","t","a","b","a","s","e">>, <<>>))
        /\ (trim(input) = <<"d","b",".","g","e","t","C","o","l","l","e","c","t","i","o","n","N","a","m","e","s","(",")">> =>
               parsed = AdminQuery(<<"l","i","s","t","C","o","l","l","e","c","t","i","o","n","s">>, <<>>))
        /\ (callForm(trim(input)) /\ trim(input) \notin ExactAdminForms =>
               /\ parsed.hasMethod /\ parsed.hasCollection
               /\ parsed.method = slice(trim(input), runStart(trim(input), firstParen(trim(input))),
                                        firstParen(trim(input)) - 1)
               /\ parsed.collection = slice(trim(input), 4,
                                            runStart(trim(input), firstParen(trim(input))) - 2))
        /\ (firstParen(trim(input)) > Len(trim(input)) \/ trim(input)[Len(trim(input))] # ")" =>
               parsed.type = "unknown" /\ ~parsed.hasMethod /\ ~parsed.hasCollection)

\* a collection of three dotted parts was told from its method, parentheses
\* inside the argument text notwithstanding
DbQueryShapeWitness ==
    /\ pc = "parsed"
    /\ input = <<"d","b",".","a",".","b",".","c",".","f","i","n","d","(","{","a",":"," ","(","1",")">>
    /\ parsed.collection = <<"a",".","b",".","c">> /\ parsed.method = <<"f","i","n","d">>
    /\ parsed.type = "read"

----------------------------------------------------------------------------
(* Options of main (src/index.ts) and loadConfig (src/lib/config.ts).  A    *)
(* setting is a value, Undefined when the key is absent.                   *)

\* isValidFormat
isValidFormat(format) ==
    format.t = "str" /\ format.s \in {<<"t","a","b","l","e">>, <<"j","s","o","n">>, <<"c","s","v">>, <<"y","a","m","l">>}

\* validateFormat of main
validateFormat(format) == IF isValidFormat(format) THEN format ELSE Str(<<"t","a","b","l","e">>)

\* a || b of JavaScript
orElse(a, b) == IF truthy(a) THEN a ELSE b

\* {...under, ...over}: a key of over replaces the key of under
spread(under, over) ==
    [k \in DOMAIN under |-> IF over[k] # Undefined THEN over[k] ELSE under[k]]

NoConfig == [uri |-> Undefined, defaultDb |-> Undefined, format |-> Undefined,
             allowWrite |-> Undefined]

\* defaultConfig of loadConfig
defaultConfig == [NoConfig EXCEPT !.format = Str(<<"t","a","b","l","e">>), !.allowWrite = Bool(FALSE)]

\* envConfig of loadConfig: env holds process.env, Undefined for a variable
\* that is not set
envConfig(env) ==
    [uri        |-> IF truthy(env.MONGO_TS_URI) THEN env.MONGO_TS_URI
                    ELSE IF truthy(env.MONGO_URI) THEN env.MONGO_URI ELSE Undefined,
     defaultDb  |-> IF truthy(env.MONGO_TS_DB) THEN env.MONGO_TS_DB
                    ELSE IF truthy(env.MONGO_DB) THEN env.MONGO_DB ELSE Undefined,
     format     |-> IF truthy(env.MONGO_TS_FORMAT) /\ isValidFormat(env.MONGO_TS_FORMAT)
                    THEN env.MONGO_TS_FORMAT ELSE Undefined,
     allowWrite |-> IF env.MONGO_TS_ALLOW_WRITE = Str(<<"t","r","u","e">>) THEN Bool(TRUE) ELSE Undefined]

\* loadConfig: fileConfig is the parsed config file, NoConfig when there is
\* none or it does not parse
loadConfig(env, fileConfig) == spread(spread(defaultConfig, fileConfig), envConfig(env))

\* the options commander hands to main: --format defaults to table and
\* --allow-write to false when they are not given
commanderOpts(cli) ==
    [uri        |-> cli.uri,
     db         |-> cli.db,
     format     |-> IF cli.format = Undefined THEN Str(<<"t","a","b","l","e">>) ELSE cli.format,
     allowWrite |-> IF cli.allowWrite = Undefined THEN Bool(FALSE) ELSE cli.allowWrite]

\* the options of main, merged from cliOpts and config
mergedOptions(cliOpts, config) ==
    [uri        |-> orElse(cliOpts.uri, config.uri),
     db         |-> orElse(cliOpts.db, config.defaultDb),
     format     |-> validateFormat(orElse(orElse(cliOpts.format, config.format), Str(<<"t","a","b","l","e">>))),
     allowWrite |-> orElse(orElse(cliOpts.allowWrite, config.allowWrite), Bool(FALSE))]

mainOptions(cli, env, fileConfig) ==
    mergedOptions(commanderOpts(cli), loadConfig(env, fileConfig))

----------------------------------------------------------------------------
(* Specification SpecOptions: main merges its options *)

NoEnv == [MONGO_TS_URI |-> Undefined, MONGO_URI |-> Undefined,
          MONGO_TS_DB |-> Undefined, MONGO_DB |-> Undefined,
          MONGO_TS_FORMAT |-> Undefined, MONGO_TS_ALLOW_WRITE |-> Undefined]

NoCli == [uri |-> Undefined, db |-> Undefined, format |-> Undefined,
          allowWrite |-> Undefined]

Maybe(text) == {Undefined, Str(text)}

\* the sources of the connection string and of the database
ConnectionSources ==
    { [cli  |-> [NoCli EXCEPT !.uri = cu, !.db = cd],
       env  |-> [NoEnv EXCEPT !.MONGO_TS_URI = tu, !.MONGO_URI = ou,
                              !.MONGO_TS_DB = td, !.MONGO_DB = od],
       file |-> [NoConfig EXCEPT !.uri = fu, !.defaultDb = fd]] :
        cu \in Maybe(<<"c","l","i","-","u","r","i">>), cd \in Maybe(<<"c","l","i","-","d","b">>),
        tu \in Maybe(<<"t","s","-","u","r","i">>), ou \in Maybe(<<"o","l","d","-","u","r","i">>),
        td \in Maybe(<<"t","s","-","d","b">>), od \in Maybe(<<"o","l","d","-","d","b">>),
        fu \in Maybe(<<"f","i","l","e","-","u","r","i">>), fd \in Maybe(<<"f","i","l","e","-","d","b">>) }

\* the sources of the output format and of allow-write
OutputSources ==
    { [cli  |-> [NoCli EXCEPT !.format = cf, !.allowWrite = cw],
       env  |-> [NoEnv EXCEPT !.MONGO_TS_FORMAT = ef, !.MONGO_TS_ALLOW_WRITE = ew],
       file |-> [NoConfig EXCEPT !.format = ff, !.allowWrite = fw]] :
        cf \in Maybe(<<"j","s","o","n">>), cw \in {Undefined, Bool(TRUE)},
        ef \in {Undefined, Str(<<"c","s","v">>), Str(<<"x","m","l">>)},
        ew \in {Undefined, Str(<<"t","r","u","e">>), Str(<<"f","a","l","s","e">>)},
        ff \in Maybe(<<"y","a","m","l">>), fw \in {Undefined, Bool(TRUE), Bool(FALSE)} }

InitOptions ==
    /\ pc = "start"
    /\ mark \in ConnectionSources \cup OutputSources
    /\ input = <<>> /\ args = NoArgs /\ base = NoBase
    /\ idleRest

\* main up to the options it runs with
MergeOptions ==
    /\ pc = "start"
    /\ result' = mainOptions(mark.cli, mark.env, mark.file)
    /\ pc' = "done"
    /\ UNCHANGED <<input, mark, args, base, parsed, stages, verdict, readonly, mgr, calls>>

SpecOptions == InitOptions /\ [][MergeOptions]_vars

\* the first of the values that is given
firstGiven(values) ==
    LET given == {k \in 1..Len(values) : values[k] # Undefined}
    IN  IF given = {} THEN Undefined ELSE values[CHOOSE k \in given : \A j \in given : k <= j]

\* the value an environment variable stands for, Undefined when it is not
\* set or not valid
envFormat(v) == IF v # Undefined /\ isValidFormat(v) THEN v ELSE Undefined

envFlag(v) ==
    IF v = Str(<<"t","r","u","e">>) THEN Bool(TRUE)
    ELSE IF v = Str(<<"f","a","l","s","e">>) THEN Bool(FALSE)
    ELSE Undefined

\* C19: each option of main is the command-line option when given, else the
\* environment variable when set to a valid value, else the value of the
\* config file, else the default; MONGO_TS_URI and MONGO_TS_DB go before
\* MONGO_URI and MONGO_DB.
OptionPrecedence ==
    pc = "done" =>
        /\ result.uri = firstGiven(<<mark.cli.uri, mark.env.MONGO_TS_URI,
                                     mark.env.MONGO_URI, mark.file.uri>>)
        /\ result.db = firstGiven(<<mark.cli.db, mark.env.MONGO_TS_DB,
                                    mark.env.MONGO_DB, mark.file.defaultDb>>)
        /\ result.format = firstGiven(<<mark.cli.format, envFormat(mark.env.MONGO_TS_FORMAT),
                                        mark.file.format, Str(<<"t","a","b","l","e">>)>>)
        /\ result.allowWrite = firstGiven(<<mark.cli.allowWrite,
                                            envFlag(mark.env.MONGO_TS_ALLOW_WRITE),
                                            mark.file.allowWrite, Bool(FALSE)>>)

----------------------------------------------------------------------------
(* Specification SpecLifecycle: calls of connect, setCurrentDb and close *)

\* most calls made on the manager in one behaviour
MaxCalls == 4

\* no call made yet
NoCall == [op |-> "", before |-> NewManager, returned |-> FALSE]

InitLifecycle ==
    /\ pc = "idle"
    /\ mgr = NewManager
    /\ mark = [n |-> 0, created |-> 0, closed |-> 0]
    /\ result = NoCall /\ calls = <<>>
    /\ input = <<>> /\ readonly = FALSE /\ parsed = UnknownQuery
    /\ args = NoArgs /\ base = NoBase /\ stages = <<>> /\ verdict = FALSE

\* await mongoClient.connect(uri): the driver connects the new client or
\* rejects
ConnectCall(dbFromUri, driverOk) ==
    /\ mark.n < MaxCalls
    /\ mgr' = connect(mgr, dbFromUri, driverOk)
    /\ calls' = connectCalls(mgr)
    /\ result' = [op |-> "connect", before |-> mgr,
                  returned |-> mgr.client # "null" \/ driverOk]
    /\ mark' = [mark EXCEPT !.n = @ + 1,
                            !.created = @ + (IF mgr.client = "null" THEN 1 ELSE 0)]
    /\ UNCHANGED <<pc, input, args, base, parsed, stages, verdict, readonly>>

\* mongoClient.setCurrentDb(name)
SetCurrentDbCall(name) ==
    /\ mark.n < MaxCalls
    /\ mgr' = setCurrentDb(mgr, name)
    /\ calls' = <<>>
    /\ result' = [op |-> "setCurrentDb", before |-> mgr, returned |-> TRUE]
    /\ mark' = [mark EXCEPT !.n = @ + 1]
    /\ UNCHANGED <<pc, input, args, base, parsed, stages, verdict, readonly>>

\* await mongoClient.close(): the driver closes the client or rejects
CloseCall(driverOk) ==
    /\ mark.n < MaxCalls
    /\ mgr' = close(mgr, driverOk)
    /\ calls' = closeCalls(mgr)
    /\ result' = [op |-> "close", before |-> mgr,
                  returned |-> mgr.client = "null" \/ driverOk]
    /\ mark' = [mark EXCEPT !.n = @ + 1,
                            !.closed = @ + (IF mgr.client # "null" /\ driverOk THEN 1 ELSE 0)]
    /\ UNCHANGED <<pc, input, args, base, parsed, stages, verdict, readonly>>

NextLifecycle ==
    \/ \E dbFromUri \in {Null, Str(<<"a","p","p">>)}, driverOk \in BOOLEAN :
          ConnectCall(dbFromUri, driverOk)
    \/ \E name \in {Str(<<"a","p","p">>), Str(<<"l","o","g","s">>)} : SetCurrentDbCall(name)
    \/ \E driverOk \in BOOLEAN : CloseCall(driverOk)

SpecLifecycle == InitLifecycle /\ [][NextLifecycle]_vars

\* the clients made and not closed are at most one, the one the manager
\* holds, and connect() on a manager that holds a client makes no other and
\* leaves the selected database as it was
oneClientKept ==
    /\ mark.created - mark.closed = (IF isConnected(mgr) THEN 1 ELSE 0)
    /\ (result.op = "connect" /\ isConnected(result.before) =>
           /\ result.returned
           /\ calls = <<>>
           /\ mgr = result.before)

\* close() on a manager that holds no client returns, calls nothing and
\* changes nothing
closeIsNoOpWithoutClient ==
    result.op = "close" /\ ~isConnected(result.before) =>
        /\ result.returned
        /\ calls = <<>>
        /\ mgr = result.before

----------------------------------------------------------------------------
(* Specification SpecScan: the loop of convertToJson, one iteration a step *)

\* longest scanned text, in pieces
MaxPieces == 3

\* the pieces a scanned text is made of: both quotes, the backslash, an
\* opening brace with a bareword key, a comma, a closing brace and a
\* constructor call
ScanPieces ==
    { <<"\"">>, <<"'">>, <<"\\">>, <<"{"," ","a",":">>, <<",">>, <<" ","}">>, <<"N","u","m","b","e","r","I","n","t","(","1",")">> }

\* before the call: no text is being scanned
InitScan ==
    /\ pc = "start"
    /\ input = <<>>
    /\ mark = [i |-> 1, output |-> <<>>, branch |-> "none"]
    /\ args = NoArgs /\ base = NoBase
    /\ idleRest

\* convertToJson(str) is entered: let output = ''; let i = 0  (positions are
\* counted from 1 here)
ScanCall ==
    /\ pc = "start"
    /\ \E toks \in SeqsUpTo(ScanPieces, MaxPieces) : input' = concatAll(toks)
    /\ pc' = "scan"
    /\ UNCHANGED <<mark, args, base, parsed, stages, verdict, readonly, mgr, calls, result>>

\* one iteration of while (i < str.length): the branch at the cursor pushes
\* its text and moves the cursor
ScanStep ==
    /\ pc = "scan"
    /\ mark.i <= Len(input)
    /\ \E step \in {convertStep(input, mark.i)} :
          mark' = [i      |-> step.next,
                   output |-> mark.output \o step.text,
                   branch |-> step.branch]
    /\ UNCHANGED <<pc, input, args, base, parsed, stages, verdict, readonly, mgr, calls, result>>

\* the loop condition fails: return output
ScanReturn ==
    /\ pc = "scan"
    /\ mark.i > Len(input)
    /\ pc' = "done"
    /\ UNCHANGED <<input, mark, args, base, parsed, stages, verdict, readonly, mgr, calls, result>>

NextScan == ScanCall \/ ScanStep \/ ScanReturn

SpecScan == InitScan /\ [][NextScan]_vars

\* once entered, the function body runs on: the loop takes its next iteration
\* and the return statement is reached when the loop condition fails
SpecScanFair == SpecScan /\ WF_vars(ScanStep) /\ WF_vars(ScanReturn)

\* C21: every iteration of the loop of convertToJson moves the cursor strictly
\* forward and never past the end of the text, whichever branch it takes, and
\* the function returns on every input, an unterminated quote, a quote as the
\* last character and a trailing backslash included.
ScanTerminates ==
    /\ [][/\ mark'.i >= mark.i
          /\ mark'.i <= Len(input) + 1
          /\ mark' # mark => mark'.i > mark.i]_vars
    /\ (pc = "scan") ~> (pc = "done")

\* the scan of a text that ends in an unterminated single-quoted string with a
\* trailing backslash has returned
ScanWitness ==
    /\ pc = "done"
    /\ input = <<"{"," ","a",":","'","\\">>
    /\ mark.i = Len(input) + 1
    /\ mark.branch = "single"

----------------------------------------------------------------------------
(* Specification SpecUnterminated: a text that ends inside a string *)

\* the pieces of a string that is never closed: letters, the other quote, an
\* escaped quote of its own style, an escaped backslash and structural text
OpenPieces(q) ==
    { <<"a">>, <<"b">>, <<otherQuote(q)>>, <<"\\", q>>, <<"\\", "\\">>, <<","," ","}">> }

\* what is written before the opening quote
OpenPrefixes == { <<>>, <<"{","a",":"," ">>, <<"[","1",","," ">> }

\* the text ends with the string's content, or with a backslash after it
OpenEndings == { <<>>, <<"\\">> }

InitUnterminated ==
    /\ pc = "start"
    /\ \E pre \in OpenPrefixes, q \in QuoteChars, tail \in OpenEndings :
         \E toks \in SeqsUpTo(OpenPieces(q), MaxContent) :
            /\ input = pre \o <<q>> \o concatAll(toks) \o tail
            /\ mark = [kind |-> q, from |-> Len(pre) + 1, to |-> Len(input),
                       content |-> concatAll(toks) \o tail]
    /\ args = NoArgs /\ base = NoBase
    /\ idleRest

\* parseArguments(input); base keeps the iterations convertToJson made
Normalize ==
    /\ pc = "start"
    /\ args' = parseArguments(input)
    /\ base' = [ok |-> TRUE, list |-> convertSteps(trim(input), 1)]
    /\ pc' = "done"
    /\ UNCHANGED <<input, mark, parsed, stages, verdict, readonly, mgr, calls, result>>

SpecUnterminated == InitUnterminated /\ [][Normalize]_vars

\* the text a string with this content is emitted as: a double-quoted string
\* verbatim, without a closing quote of its own; a single-quoted string
\* re-quoted
emittedOpen(q, content) ==
    IF q = "\"" THEN <<q>> \o content
    ELSE <<"\"">> \o escapeDoubleQuotes(content) \o <<"\"">>

\* C22: a string that is opened and never closed takes every remaining
\* character of the text as its content, in both quote styles: one step of the
\* scanner runs from the opening quote to the end of the text, and what it
\* emits holds the whole remaining text.
UnterminatedRunsToEnd ==
    pc = "done" =>
        \E k \in 1..Len(base.list) :
            /\ base.list[k].from = mark.from
            /\ base.list[k].next = Len(input) + 1
            /\ k = Len(base.list)
            /\ base.list[k].text = emittedOpen(mark.kind, mark.content)

----------------------------------------------------------------------------
(* Specification SpecSegment: one closed single-quoted segment whose source *)
(* holds double quotes and backslash escapes                               *)

\* the pieces of a segment's source, each with the characters it denotes in a
\* JavaScript string literal
SegmentPieces ==
    { [raw |-> <<"a">>,            is |-> <<"a">>],
      [raw |-> <<"\"">>,         is |-> <<"\"">>],
      [raw |-> <<"\\", "\"">>,   is |-> <<"\"">>],
      [raw |-> <<"\\", "\\">>,   is |-> <<"\\">>],
      [raw |-> <<","," ","}">>,          is |-> <<","," ","}">>] }

\* one segment made of the given pieces, written at one of the places a
\* string literal stands at
segmentOf(pieces) ==
    \E c \in Contexts :
       \E toks \in SeqsUpTo(pieces, MaxQuoted) :
          LET raw == concatAll([k \in 1..Len(toks) |-> toks[k].raw])
          IN  /\ input = c.pre \o <<"'">> \o raw \o <<"'">> \o c.post
              /\ mark = [kind |-> c.kind, from |-> Len(c.pre) + 1,
                         to |-> Len(c.pre) + Len(raw) + 2, raw |-> raw,
                         content |-> concatAll([k \in 1..Len(toks) |-> toks[k].is])]

InitSegment ==
    /\ pc = "start"
    /\ segmentOf(SegmentPieces)
    /\ args = NoArgs /\ base = NoBase
    /\ idleRest

SpecSegment == InitSegment /\ [][Normalize]_vars

\* text is one JSON string token, from its first to its last character
oneStringToken(text) ==
    /\ Len(text) >= 2 /\ text[1] = "\""
    /\ jsonString(text, 2, <<>>).ok
    /\ jsonString(text, 2, <<>>).pos = Len(text) + 1

\* C23: a single-quoted segment is emitted by one step of the scanner, from
\* its opening to its closing quote, as one well-formed double-quoted string
\* token that decodes to the segment's content, also when the content holds
\* double quotes and backslashes.
SingleQuoteReemitted ==
    pc = "done" =>
        \E k \in 1..Len(base.list) :
            /\ base.list[k].from = mark.from
            /\ base.list[k].next = mark.to + 1
            /\ oneStringToken(base.list[k].text)
            /\ jsonString(base.list[k].text, 2, <<>>).val = Str(mark.content)

----------------------------------------------------------------------------
(* Specification SpecEscaped: a single-quoted segment that holds an escaped *)
(* single quote                                                            *)

EscapedQuote == [raw |-> <<"\\", "'">>, is |-> <<"'">>]

EscapedPieces ==
    { EscapedQuote, [raw |-> <<"a">>, is |-> <<"a">>], [raw |-> <<"t"," ","s">>, is |-> <<"t"," ","s">>],
      [raw |-> <<"\"">>, is |-> <<"\"">>],
      [raw |-> <<","," ","}">>, is |-> <<","," ","}">>] }

\* raw holds a backslash followed by a single quote
holdsEscapedQuote(raw) ==
    \E k \in 1..(Len(raw) - 1) : raw[k] = "\\" /\ raw[k + 1] = "'"

InitEscaped ==
    /\ pc = "start"
    /\ segmentOf(EscapedPieces)
    /\ holdsEscapedQuote(mark.raw)
    /\ args = NoArgs /\ base = NoBase
    /\ idleRest

SpecEscaped == InitEscaped /\ [][Normalize]_vars

\* C24: a backslash-escaped single quote inside a single-quoted string does
\* not end the string, which one step of the scanner takes from its opening
\* to its closing quote, and the materialized string value holds a single
\* quote character in its place.
EscapedQuoteLiteral ==
    pc = "done" =>
        /\ \E k \in 1..Len(base.list) :
              /\ base.list[k].from = mark.from
              /\ base.list[k].next = mark.to + 1
              /\ base.list[k].branch = "single"
        /\ args.list = expected(mark.kind, Str(mark.content))

----------------------------------------------------------------------------
(* Specification SpecKey: objects whose keys are written bare, double-quoted *)
(* or single-quoted                                                         *)

\* barewords /\$?\w+/: plain, $-prefixed, digit-leading
KeyWords == { <<"a">>, <<"$","g","t">>, <<"1","a">> }

KeyStyles == {"bare", "double", "single"}

\* whitespace before a key and between a key and its colon
KeyGaps == { <<>>, <<" ">> }

\* values with the text they are written as; none holds a bare key
KeyValues ==
    { [text |-> <<"1">>,           is |-> Num(<<"1">>)],
      [text |-> <<"\"","b",":"," ","2",","," ","c",":"," ","3","\"">>, is |-> Str(<<"b",":"," ","2",","," ","c",":"," ","3">>)],
      [text |-> <<"[","1",","," ","2","]">>,      is |-> Arr(<<Num(<<"1">>), Num(<<"2">>)>>)] }

\* one member of an object: gap, key, sep, colon, value
KeyMembers ==
    [word : KeyWords, style : KeyStyles, gap : KeyGaps, sep : KeyGaps, value : KeyValues]

keyText(m) ==
    CASE m.style = "bare"   -> m.word
      [] m.style = "double" -> <<"\"">> \o m.word \o <<"\"">>
      [] OTHER              -> <<"'">> \o m.word \o <<"'">>

memberText(m) == m.gap \o keyText(m) \o m.sep \o <<":"," ">> \o m.value.text

\* an object of one or two members: its text, its members with the position
\* of the character before each (the brace or the comma) and of each colon,
\* and the object it denotes
objectOf(members) ==
    LET first == <<"{">> \o memberText(members[1])
        text  == IF Len(members) = 1 THEN first \o <<"}">>
                 ELSE first \o <<",">> \o memberText(members[2]) \o <<"}">>
        at(k) == IF k = 1 THEN 1 ELSE Len(first) + 1
    IN  [text  |-> text,
         keys  |-> [k \in 1..Len(members) |->
                      [m     |-> members[k],
                       from  |-> at(k),
                       colon |-> at(k) + Len(members[k].gap) + Len(keyText(members[k]))
                                       + Len(members[k].sep) + 1]],
         value |-> IF Len(members) = 1
                   THEN putMember(Obj(<<>>, <<>>), members[1].word, members[1].value.is)
                   ELSE putMember(putMember(Obj(<<>>, <<>>), members[1].word, members[1].value.is),
                                  members[2].word, members[2].value.is)]

InitKey ==
    /\ pc = "start"
    /\ \E m1 \in KeyMembers :
         \E rest \in {<<>>} \cup {<<m2>> : m2 \in KeyMembers} :
            /\ input = objectOf(<<m1>> \o rest).text
            /\ mark = [keys  |-> objectOf(<<m1>> \o rest).keys,
                       value |-> objectOf(<<m1>> \o rest).value]
    /\ args = NoArgs /\ base = NoBase
    /\ idleRest

SpecKey == InitKey /\ [][Normalize]_vars

\* the step that starts at position from
stepAt(steps, from) == CHOOSE k \in 1..Len(steps) : steps[k].from = from

\* C25: after an emitted brace or kept comma and the whitespace that follows, a
\* bareword of word characters with an optional leading $ that is followed by
\* a colon is emitted as a double-quoted key and a colon, and the cursor is
\* left after the colon; no other step emits anything but the text it passes
\* over, apart from a re-quoted single-quoted string; the object materializes
\* to the same value in all three key styles.
KeyQuoting ==
    pc = "done" =>
        /\ \A j \in 1..Len(mark.keys) :
              /\ \E k \in 1..Len(base.list) : base.list[k].from = mark.keys[j].from
              /\ LET step == base.list[stepAt(base.list, mark.keys[j].from)]
                     m    == mark.keys[j].m
                 IN  /\ step.branch = (IF j = 1 THEN "brace" ELSE "comma")
                     /\ IF m.style = "bare"
                        THEN /\ step.next = mark.keys[j].colon + 1
                             /\ step.text = <<input[step.from]>> \o m.gap
                                            \o <<"\"">> \o m.word \o <<"\"", ":">>
                        ELSE /\ step.next = step.from + 1 + Len(m.gap)
                             /\ step.text = <<input[step.from]>> \o m.gap
        /\ \A k \in 1..Len(base.list) :
              \/ \E j \in 1..Len(mark.keys) : base.list[k].from = mark.keys[j].from
              \/ base.list[k].branch = "single"
              \/ base.list[k].text = slice(input, base.list[k].from, base.list[k].next - 1)
        /\ args.list = <<mark.value>>

\* an object with a $-prefixed bare key and a single-quoted digit-leading key
\* with whitespace before its colon has been materialized
KeyQuotingWitness ==
    /\ pc = "done"
    /\ input = <<"{","$","g","t",":"," ","1",","," ","'","1","a","'"," ",":"," ","\"","b",":"," ","2",","," ","c",":"," ","3","\"","}">>
    /\ args.list = <<mark.value>>
    /\ mark.value.keys = <<<<"$","g","t">>, <<"1","a">>>>

----------------------------------------------------------------------------
(* Specification SpecInt: one NumberInt literal in an argument text *)

\* longest digit string of a NumberInt literal
MaxDigits == 3

\* optionally-signed decimal digit strings
SignedDecimals ==
    { sign \o digits : sign \in {<<>>, <<"-">>},
                       digits \in SeqsUpTo({"0", "1", "7"}, MaxDigits) \ {<<>>} }

\* the spellings of a NumberInt literal with argument d
IntLiterals(d) ==
    { <<"N","u","m","b","e","r","I","n","t","(">> \o d \o <<")">>,
      <<"N","u","m","b","e","r","I","n","t","(","\"">> \o d \o <<"\"",")">>,
      <<"N","u","m","b","e","r","I","n","t","(","'">> \o d \o <<"'",")">>,
      <<"n","e","w"," ","N","u","m","b","e","r","I","n","t","(">> \o d \o <<")">> }

InitInt ==
    /\ pc = "start"
    /\ \E c \in ValueContexts, d \in SignedDecimals :
         \E lit \in IntLiterals(d) :
            /\ input = c.pre \o lit \o c.post
            /\ mark = [kind |-> c.kind, content |-> d]
    /\ args = NoArgs /\ base = NoBase
    /\ idleRest

SpecInt == InitInt /\ [][Materialize]_vars

\* the integer an optionally-signed digit string denotes
RECURSIVE digitsValue(_, _)
digitsValue(digits, acc) ==
    IF digits = <<>> THEN acc
    ELSE digitsValue(Tail(digits), 10 * acc + digitVal(Head(digits)))

decimalValue(d) ==
    IF Head(d) = "-" THEN 0 - digitsValue(Tail(d), 0) ELSE digitsValue(d, 0)

\* C26: a NumberInt literal over an optionally-signed decimal digit string d,
\* bare, quoted or with new, materializes at its place to the plain number
\* whose value is d.
NumberIntPlain ==
    pc = "done" =>
        \E text \in SignedDecimals :
            /\ decimalValue(text) = decimalValue(mark.content)
            /\ args.list = expected(mark.kind, Num(text))

----------------------------------------------------------------------------
(* Specification SpecLong: one NumberLong literal in an argument text *)

\* decimal strings within the signed 64-bit range: the short ones and some at
\* the ends of the range and at the ends of the eight-digit chunks
LongDecimals ==
    SignedDecimals \cup
    { <<"9","2","2","3","3","7","2","0","3","6","8","5","4","7","7","5","8","0","7">>, <<"-","9","2","2","3","3","7","2","0","3","6","8","5","4","7","7","5","8","0","8">>, <<"-","9","2","2","3","3","7","2","0","3","6","8","5","4","7","7","5","8","0","7">>,
      <<"0","9","2","2","3","3","7","2","0","3","6","8","5","4","7","7","5","8","0","7">>, <<"4","2","9","4","9","6","7","2","9","6">>, <<"9","9","9","9","9","9","9","9">>, <<"1","0","0","0","0","0","0","0","0">>,
      <<"-","1","2","3","4","5","6","7","8","9","0","1","2","3","4","5","6">>, <<"0","0","0","0","0","0","0","0","0","0","0","0","0","0","0","0","0","0","0","0","1">> }

\* the spellings of a NumberLong literal with argument d
LongLiterals(d) ==
    { <<"N","u","m","b","e","r","L","o","n","g","(">> \o d \o <<")">>,
      <<"N","u","m","b","e","r","L","o","n","g","(","\"">> \o d \o <<"\"",")">>,
      <<"N","u","m","b","e","r","L","o","n","g","(","'">> \o d \o <<"'",")">> }

InitLong ==
    /\ pc = "start"
    /\ \E c \in ValueContexts, d \in LongDecimals :
         \E lit \in LongLiterals(d) :
            /\ input = c.pre \o lit \o c.post
            /\ mark = [kind |-> c.kind, content |-> d]
    /\ args = NoArgs /\ base = NoBase
    /\ idleRest

SpecLong == InitLong /\ [][Materialize]_vars

\* the decimal numeral of the value of d: no leading zeros, no sign on zero
numeralOf(d) ==
    IF Head(d) = "-" THEN signedDigits(TRUE, stripZeros(Tail(d)))
    ELSE stripZeros(d)

\* C27 (as amended): the three spellings of a NumberLong literal over an
\* optionally-signed decimal string d within the signed 64-bit range
\* materialize to the same 64-bit integer, whose decimal string form is the
\* numeral of the value of d: d without its leading zeros, and 0 for -0.
LongRoundTrip ==
    pc = "done" =>
        args.list = expected(mark.kind, mkVal("long", numeralOf(mark.content), <<>>, <<>>))

\* C27 as stated: the decimal string form of the value equals d
LongRoundTripExact ==
    pc = "done" =>
        args.list = expected(mark.kind, mkVal("long", mark.content, <<>>, <<>>))

\* the least 64-bit value, written in single quotes as the value of a key,
\* has been materialized
LongWitness ==
    /\ pc = "done"
    /\ mark.kind = "value"
    /\ input = <<"{","a",":"," ","N","u","m","b","e","r","L","o","n","g","(","'","-","9","2","2","3","3","7","2","0","3","6","8","5","4","7","7","5","8","0","8","'",")","}">>
    /\ args.list = <<Obj(<<<<"a">>>>, <<mkVal("long", <<"-","9","2","2","3","3","7","2","0","3","6","8","5","4","7","7","5","8","0","8">>, <<>>, <<>>)>>)>>

\* C28: isConnected() is true only while a connected client is held: after a
\* connect() that the driver rejected the manager holds no client, so getDb
\* throws 'Not connected', and a connect() on a manager without a connected
\* client makes a new client and connects it.
FailedConnectDisconnects ==
    /\ (result.op = "connect" /\ ~result.returned => mgr.client = "null")
    /\ (isConnected(mgr) => mgr.client = "connected")
    /\ (mgr.client # "connected" => getDbError(mgr) = "Not connected")
    /\ (result.op = "connect" /\ result.before.client # "connected" => calls # <<>>)

----------------------------------------------------------------------------
(* Specification SpecShell: line events of the interactive shell.  mark holds *)
(* the ShellState (multilineBuffer, inMultiline, history) and the number of   *)
(* lines read; stages holds the line handlers that wait for processInput;    *)
(* base holds what the lines read so far amount to: the multi-line input     *)
(* being entered and the inputs completed.                                   *)

\* most line events in one behaviour
MaxLines == 4

\* the lines a user enters: an empty line, a line that opens a bracket, a
\* line that closes it, a complete query, a line with a bracket in a string
ShellLines ==
    { <<>>, <<" ">>, <<"d","b",".","a",".","f","i","n","d","(","{">>, <<"x",":"," ","1","}",")">>, <<"s","h","o","w"," ","d","b","s">>, <<"d","b",".","a",".","f","i","n","d","(","\"","(","\"",")">> }

\* needsMultiline: the brackets opened outside strings outnumber those closed
RECURSIVE bracketDepth(_, _, _, _)
bracketDepth(text, i, depth, stringChar) ==
    IF i > Len(text) THEN depth
    ELSE IF stringChar # "" THEN
        bracketDepth(text, i + 1, depth, IF text[i] = stringChar THEN "" ELSE stringChar)
    ELSE IF text[i] \in QuoteChars THEN bracketDepth(text, i + 1, depth, text[i])
    ELSE IF text[i] \in {"(", "[", "{"} THEN bracketDepth(text, i + 1, depth + 1, "")
    ELSE IF text[i] \in {")", "]", "}"} THEN bracketDepth(text, i + 1, depth - 1, "")
    ELSE bracketDepth(text, i + 1, depth, "")

needsMultiline(text) == bracketDepth(text, 1, 0, "") > 0

\* processInput(text): an empty input returns at once; any other is pushed on
\* the history and executed
processInput(history, text) == IF text = <<>> THEN history ELSE Append(history, text)

InitShell ==
    /\ pc = "idle"
    /\ mark = [multilineBuffer |-> <<>>, inMultiline |-> FALSE, history |-> <<>>, n |-> 0]
    /\ stages = <<>>
    /\ base = [entering |-> <<>>, completed |-> <<>>]
    /\ input = <<>> /\ args = NoArgs /\ calls = <<>>
    /\ parsed = UnknownQuery /\ verdict = FALSE /\ readonly = FALSE
    /\ mgr = NewManager /\ result = [success |-> FALSE, error |-> ""]

\* rl.on('line'): the handler runs up to its first await.  In multi-line mode
\* an empty line ends the mode and passes the buffer to processInput, and the
\* handler waits; any other line is appended.  Outside it, a line with an open
\* bracket starts the mode; any other line is passed to processInput.
LineEvent(line) ==
    /\ mark.n < MaxLines
    /\ input' = trim(line)
    /\ IF mark.inMultiline /\ trim(line) = <<>>
       THEN /\ mark' = [mark EXCEPT !.inMultiline = FALSE, !.n = @ + 1,
                                    !.history = processInput(@, mark.multilineBuffer)]
            /\ stages' = Append(stages, "flush")
            /\ base' = [entering |-> <<>>,
                        completed |-> processInput(base.completed, base.entering)]
       ELSE IF mark.inMultiline
       THEN /\ mark' = [mark EXCEPT !.multilineBuffer = @ \o <<" ">> \o trim(line), !.n = @ + 1]
            /\ stages' = stages
            /\ base' = [base EXCEPT !.entering = @ \o <<" ">> \o trim(line)]
       ELSE IF needsMultiline(trim(line))
       THEN /\ mark' = [mark EXCEPT !.inMultiline = TRUE, !.multilineBuffer = trim(line),
                                    !.n = @ + 1]
            /\ stages' = stages
            /\ base' = [base EXCEPT !.entering = trim(line)]
       ELSE /\ mark' = [mark EXCEPT !.n = @ + 1, !.history = processInput(@, trim(line))]
            /\ stages' = Append(stages, "single")
            /\ base' = [base EXCEPT !.completed = processInput(@, trim(line))]
    /\ UNCHANGED <<pc, args, parsed, verdict, readonly, mgr, calls, result>>

\* the processInput a handler waits for has settled and the handler runs on:
\* after a flush it empties the buffer; then it sets the prompt
HandlerResumes(k) ==
    /\ k \in 1..Len(stages)
    /\ mark' = IF stages[k] = "flush" THEN [mark EXCEPT !.multilineBuffer = <<>>] ELSE mark
    /\ stages' = [j \in 1..(Len(stages) - 1) |-> IF j < k THEN stages[j] ELSE stages[j + 1]]
    /\ UNCHANGED <<pc, input, args, base, parsed, verdict, readonly, mgr, calls, result>>

NextShell ==
    \/ \E line \in ShellLines : LineEvent(line)
    \/ \E k \in 1..MaxLines : HandlerResumes(k)

SpecShell == InitShell /\ [][NextShell]_vars

\* C29: no accepted input is lost, whatever the handlers that wait do: while
\* a multi-line input is being entered the buffer holds the lines entered for
\* it, and the inputs passed to processInput are the inputs that were entered.
NoInputLost ==
    /\ (mark.inMultiline => mark.multilineBuffer = base.entering)
    /\ mark.history = base.completed

----------------------------------------------------------------------------
(* The frame of executeQuery, on SpecExec *)

\* the parsed query is the use command
isUse(p) == p.type = "admin" /\ p.hasMethod /\ p.method = <<"u","s","e">>

\* C30: executeQuery changes the client manager only by executing a use
\* command, which sets the selected database to the name it was given and
\* leaves the connection as it is; a query that is blocked by readonly mode,
\* classified unknown, rejected as unsupported or failed by the driver leaves
\* the connection and the selected database unchanged.
ExecuteFrame ==
    [][pc = "running" =>
          /\ (mgr' # mgr => isUse(parsed') /\ result'.success)
          /\ (isUse(parsed') =>
                 /\ result'.success
                 /\ mgr' = [mgr EXCEPT !.currentDbName = parsed'.args[1]])
          /\ (~result'.success => mgr' = mgr)]_vars

\* a use command has been executed in readonly mode on a connected manager
\* whose selected database was another one
ExecuteFrameWitness ==
    /\ pc = "returned"
    /\ input = <<"u","s","e"," ","m","y","d","b">>
    /\ readonly
    /\ result.success
    /\ calls = <<Call("mongoClient", "setCurrentDb", <<Str(<<"m","y","d","b">>)>>)>>
    /\ mgr = [client |-> "connected", currentDbName |-> Str(<<"m","y","d","b">>)]
====
